---- MODULE Spec2Model ----
(***************************************************************************)
(* Model of the x86_64 virtual-memory core of the Hexahedron kernel        *)
(* (hexahedron/arch/x86_64/mem.c): the four-level page-table walker, the   *)
(* leaf-page allocate/free primitives and the driver, DMA and heap region  *)
(* allocators, on top of a bitmap physical frame allocator.                *)
(*                                                                         *)
(* Geometry is scaled: a table has TableEntries entries instead of 512 and *)
(* the non-translated high bits of an address take HighBitsMax + 1 values  *)
(* instead of 2^16.  Shifts and masks are written as division and modulo   *)
(* by the spans below, which is the same function when TableEntries = 512. *)
(* Addresses and sizes are unsigned words modulo VA_MOD.                   *)
(***************************************************************************)
EXTENDS Integers, Sequences, FiniteSets, TLC

(* ------------------------------ bounds --------------------------------- *)
TableEntries == 3
HighBitsMax == 1
\* physical memory fits under one PML4 slot, so that frame | window base is
\* a different address for every frame
NFrames == 27
DriverPages == 3
DmaPages == 3
BitmapPages == 1
MaxOps == 4

(* ---------------------------- geometry --------------------------------- *)
PAGE_SIZE == 4096
PMM_BLOCK_SIZE == PAGE_SIZE
PAGE_SIZE_LARGE == PAGE_SIZE * TableEntries
PD_SPAN == PAGE_SIZE_LARGE * TableEntries
PDPT_SPAN == PD_SPAN * TableEntries
VA_SPAN == PDPT_SPAN * TableEntries
VA_MOD == VA_SPAN * (HighBitsMax + 1)

MEM_PML4_INDEX(x) == (x \div PDPT_SPAN) % TableEntries
MEM_PDPT_INDEX(x) == (x \div PD_SPAN) % TableEntries
MEM_PAGEDIR_INDEX(x) == (x \div PAGE_SIZE_LARGE) % TableEntries
MEM_PAGETBL_INDEX(x) == (x \div PAGE_SIZE) % TableEntries

\* bits [63:48] all equal to bit 47 (the top bit of the PML4 index)
MEM_IS_CANONICAL(addr) ==
    LET high == addr \div VA_SPAN
        bit47 == MEM_PML4_INDEX(addr) >= TableEntries \div 2
    IN  IF bit47 THEN high = HighBitsMax ELSE high = 0

\* ((addr + PAGE_SIZE) & ~0xFFF) on an unsigned word
MEM_ALIGN_PAGE(addr) == (((addr + PAGE_SIZE) % VA_MOD) \div PAGE_SIZE) * PAGE_SIZE

(* ------------------------- fixed memory map ---------------------------- *)
MEM_HEAP_REGION == VA_MOD - 2 * PDPT_SPAN
MEM_PHYSMEM_MAP_REGION == VA_MOD - PDPT_SPAN
MEM_PHYSMEM_MAP_SIZE == (TableEntries - 2) * PD_SPAN
\* the page directory after the window is left unused; the driver and DMA
\* regions follow each other in the last one
MEM_DRIVER_REGION == MEM_PHYSMEM_MAP_REGION + (TableEntries - 1) * PD_SPAN
MEM_DRIVER_REGION_SIZE == DriverPages * PAGE_SIZE
MEM_DMA_REGION == MEM_DRIVER_REGION + MEM_DRIVER_REGION_SIZE
MEM_DMA_REGION_SIZE == DmaPages * PAGE_SIZE

(* ------------------------------ flags ---------------------------------- *)
MEM_DEFAULT == 0
MEM_CREATE == 1
MEM_KERNEL == 2
MEM_READONLY == 4
MEM_WRITETHROUGH == 8
MEM_NOT_CACHEABLE == 16
MEM_NOT_PRESENT == 32
MEM_NOALLOC == 64
MEM_FREE_PAGE == 128

\* C bitwise and of two non-negative words
RECURSIVE BitAnd(_, _)
BitAnd(a, b) ==
    IF a = 0 \/ b = 0 THEN 0
    ELSE (a % 2) * (b % 2) + 2 * BitAnd(a \div 2, b \div 2)

\* C logical not: !x
LogicalNot(x) == IF x = 0 THEN 1 ELSE 0

(* ------------------------- page-table entries -------------------------- *)
NULL == [tbl |-> -1, idx |-> -1]

ZeroPage == [present |-> 0, rw |-> 0, usermode |-> 0, writethrough |-> 0,
             cache_disable |-> 0, size |-> 0, address |-> 0]

ZeroTable == [i \in 0..(TableEntries - 1) |-> ZeroPage]

MEM_SET_FRAME(page, frame) == [page EXCEPT !.address = frame \div PAGE_SIZE]
MEM_GET_FRAME(page) == page.address * PAGE_SIZE

\* frame_address | MEM_PHYSMEM_MAP_REGION: the region base has every bit
\* above the slot span set and every bit below it clear
mem_remapPhys(frame_address, size) ==
    MEM_PHYSMEM_MAP_REGION + (frame_address % PDPT_SPAN)

\* the physical frame a window address aliases
WindowFrame(va) == (va - MEM_PHYSMEM_MAP_REGION) \div PAGE_SIZE

\* *ptr for a page_t pointer into a table addressed through the window
Entry(m, ptr) ==
    IF WindowFrame(ptr.tbl) \in DOMAIN m THEN m[WindowFrame(ptr.tbl)][ptr.idx]
    ELSE ZeroPage

\* *ptr = e
SetEntry(m, ptr, e) ==
    [f \in DOMAIN m \cup {WindowFrame(ptr.tbl)} |->
        IF f = WindowFrame(ptr.tbl)
        THEN [(IF f \in DOMAIN m THEN m[f] ELSE ZeroTable) EXCEPT ![ptr.idx] = e]
        ELSE m[f]]

\* memset((void*)block_remap, 0, PMM_BLOCK_SIZE)
ZeroFrame(m, block_remap) ==
    [f \in DOMAIN m \cup {WindowFrame(block_remap)} |->
        IF f = WindowFrame(block_remap) THEN ZeroTable ELSE m[f]]

(* ----------------------- physical frame allocator ---------------------- *)
Frames == 0..(NFrames - 1)
OOM == -1

\* lowest free frame of the bitmap, OOM when every bit is set
pmm_allocateBlock(used) ==
    IF Frames \subseteq used THEN [used |-> used, block |-> OOM]
    ELSE LET f == CHOOSE x \in Frames \ used : \A y \in Frames \ used : x <= y
         IN  [used |-> used \cup {f}, block |-> f * PMM_BLOCK_SIZE]

\* clear the bit of the frame; a frame the bitmap does not cover is ignored
pmm_freeBlock(used, frame) == used \ {frame \div PMM_BLOCK_SIZE}

(* --------------------------- mem.c: walker ----------------------------- *)
\* The operations below thread a kernel state s through the code: a record
\* with the page tables by physical frame (mem), the frame bitmap (pmm), the
\* fatal-stop code (panic), the dprintf(WARN) flag (warn) and the three
\* region cursors.
\* !present branch of one level of mem_getPage: returns the state after the
\* branch and whether control went to bad_page (or the kernel stopped)
CreateInterior(s, entry, flags) ==
    IF Entry(s.mem, entry).present = 1 THEN [s |-> s, bad |-> FALSE]
    ELSE IF BitAnd(LogicalNot(flags), MEM_CREATE) # 0 THEN [s |-> s, bad |-> TRUE]
    ELSE LET a == pmm_allocateBlock(s.pmm)
         IN  IF a.block = OOM
             THEN [s |-> [s EXCEPT !.panic = "OUT_OF_MEMORY"], bad |-> TRUE]
             ELSE LET block_remap == mem_remapPhys(a.block, PMM_BLOCK_SIZE)
                      zeroed == ZeroFrame(s.mem, block_remap)
                      linked == MEM_SET_FRAME(
                                  [Entry(zeroed, entry) EXCEPT !.present = 1,
                                                               !.rw = 1,
                                                               !.usermode = 1],
                                  a.block)
                  IN  [s |-> [s EXCEPT !.pmm = a.used,
                                       !.mem = SetEntry(zeroed, entry, linked)],
                       bad |-> FALSE]

\* &(((page_t*)mem_remapPhys(MEM_GET_FRAME(parent), PMM_BLOCK_SIZE))[idx])
ChildEntry(m, parent, idx) ==
    [tbl |-> mem_remapPhys(MEM_GET_FRAME(Entry(m, parent)), PMM_BLOCK_SIZE), idx |-> idx]

\* the PT level: r3 is the outcome of the PD level for the entry pde
WalkPT(r3, pde, addr) ==
    IF r3.bad THEN [s |-> r3.s, pg |-> NULL]
    ELSE IF Entry(r3.s.mem, pde).size = 1
    THEN [s |-> [r3.s EXCEPT !.warn = TRUE], pg |-> NULL]
    ELSE [s |-> r3.s, pg |-> ChildEntry(r3.s.mem, pde, MEM_PAGETBL_INDEX(addr))]

\* the PD level
WalkPDE(s, pde, addr, flags) == WalkPT(CreateInterior(s, pde, flags), pde, addr)

WalkPD(r2, pdpt_entry, addr, flags) ==
    IF r2.bad THEN [s |-> r2.s, pg |-> NULL]
    ELSE IF Entry(r2.s.mem, pdpt_entry).size = 1
    THEN [s |-> [r2.s EXCEPT !.warn = TRUE], pg |-> NULL]
    ELSE WalkPDE(r2.s, ChildEntry(r2.s.mem, pdpt_entry, MEM_PAGEDIR_INDEX(addr)),
                 addr, flags)

\* the PDPT level
WalkPDPTE(s, pdpt_entry, addr, flags) ==
    WalkPD(CreateInterior(s, pdpt_entry, flags), pdpt_entry, addr, flags)

WalkPDPT(r1, pml4_entry, addr, flags) ==
    IF r1.bad THEN [s |-> r1.s, pg |-> NULL]
    ELSE WalkPDPTE(r1.s, ChildEntry(r1.s.mem, pml4_entry, MEM_PDPT_INDEX(addr)),
                   addr, flags)

\* the PML4 level
WalkPML4(s, pml4_entry, addr, flags) ==
    WalkPDPT(CreateInterior(s, pml4_entry, flags), pml4_entry, addr, flags)

\* mem_getPage past the canonical check: align, then walk the four levels
GetPageWalk(s, dir, address, flags) ==
    LET addr == IF address % PAGE_SIZE # 0 THEN MEM_ALIGN_PAGE(address) ELSE address
    IN  WalkPML4(s, [tbl |-> dir, idx |-> MEM_PML4_INDEX(addr)], addr, flags)

\* variant: the walk without the canonical check
mem_getPage_unchecked(s, dir, address, flags) == GetPageWalk(s, dir, address, flags)

mem_getPage(s, dir, address, flags) ==
    IF ~MEM_IS_CANONICAL(address) THEN [s |-> s, pg |-> NULL]
    ELSE GetPageWalk(s, dir, address, flags)

\* variant: the entry is cleared but the frame is not handed back
mem_freePage_keepframe(s, page) ==
    IF page = NULL THEN s
    ELSE LET e == Entry(s.mem, page)
             cleared == [e EXCEPT !.present = 0, !.rw = 0, !.usermode = 0]
         IN  [s EXCEPT !.mem = SetEntry(s.mem, page, MEM_SET_FRAME(cleared, 0))]

mem_freePage(s, page) ==
    IF page = NULL THEN s
    ELSE LET e == Entry(s.mem, page)
             cleared == [e EXCEPT !.present = 0, !.rw = 0, !.usermode = 0]
         IN  [s EXCEPT !.pmm = pmm_freeBlock(s.pmm, MEM_GET_FRAME(cleared)),
                       !.mem = SetEntry(s.mem, page, MEM_SET_FRAME(cleared, 0))]

\* variant: the bits are or-ed into the entry instead of assigned
ConfigureBits_sticky(e, flags) ==
    [e EXCEPT
       !.present = IF BitAnd(flags, MEM_NOT_PRESENT) # 0 THEN 0 ELSE 1,
       !.rw = IF BitAnd(flags, MEM_READONLY) # 0 THEN 0 ELSE 1,
       !.usermode = IF BitAnd(flags, MEM_KERNEL) # 0 THEN 0 ELSE 1,
       !.writethrough = IF BitAnd(flags, MEM_WRITETHROUGH) # 0 THEN 1 ELSE @,
       !.cache_disable = IF BitAnd(flags, MEM_NOT_CACHEABLE) # 0 THEN 1 ELSE @]

\* "Configure page bits"
ConfigureBits(e, flags) ==
    [e EXCEPT
       !.present = IF BitAnd(flags, MEM_NOT_PRESENT) # 0 THEN 0 ELSE 1,
       !.rw = IF BitAnd(flags, MEM_READONLY) # 0 THEN 0 ELSE 1,
       !.usermode = IF BitAnd(flags, MEM_KERNEL) # 0 THEN 0 ELSE 1,
       !.writethrough = IF BitAnd(flags, MEM_WRITETHROUGH) # 0 THEN 1 ELSE 0,
       !.cache_disable = IF BitAnd(flags, MEM_NOT_CACHEABLE) # 0 THEN 1 ELSE 0]

\* variant: the page is configured although no frame was left
mem_allocatePage_nostop(s, page, flags) ==
    IF page = NULL THEN s
    ELSE IF BitAnd(flags, MEM_FREE_PAGE) # 0 THEN mem_freePage(s, page)
    ELSE
    LET e == Entry(s.mem, page)
        alloc == e.address = 0 /\ BitAnd(flags, MEM_NOALLOC) = 0
        a == pmm_allocateBlock(s.pmm)
        framed == IF alloc /\ a.block # OOM THEN MEM_SET_FRAME(e, a.block) ELSE e
    IN  [s EXCEPT !.pmm = IF alloc THEN a.used ELSE s.pmm,
                  !.mem = SetEntry(s.mem, page, ConfigureBits(framed, flags))]

mem_allocatePage(s, page, flags) ==
    IF page = NULL THEN s
    ELSE IF BitAnd(flags, MEM_FREE_PAGE) # 0 THEN mem_freePage(s, page)
    ELSE
    LET e == Entry(s.mem, page)
        alloc == e.address = 0 /\ BitAnd(flags, MEM_NOALLOC) = 0
        a == pmm_allocateBlock(s.pmm)
        framed == IF alloc THEN MEM_SET_FRAME(e, a.block) ELSE e
    IN  IF alloc /\ a.block = OOM THEN [s EXCEPT !.panic = "OUT_OF_MEMORY"]
        ELSE [s EXCEPT !.pmm = IF alloc THEN a.used ELSE s.pmm,
                       !.mem = SetEntry(s.mem, page, ConfigureBits(framed, flags))]

\* MEM_SET_FRAME(pg, phys) on the entry pg of state s
SetFrameOf(s, pg, phys) ==
    [s EXCEPT !.mem = SetEntry(s.mem, pg, MEM_SET_FRAME(Entry(s.mem, pg), phys))]

\* mem_mapAddress after its lookup returned r
MapLookedUp(r, phys) ==
    IF r.pg = NULL THEN r.s
    ELSE SetFrameOf(mem_allocatePage(r.s, r.pg, MEM_NOALLOC), r.pg, phys)

mem_mapAddress(s, dir, phys, virt) ==
    IF ~MEM_IS_CANONICAL(virt) THEN s
    ELSE MapLookedUp(mem_getPage(s, dir, virt, MEM_CREATE), phys)

\* MEM_GET_FRAME(pg) + offset, or 0 for a NULL pg
FrameOfLookedUp(r, offset) ==
    IF r.pg # NULL THEN MEM_GET_FRAME(Entry(r.s.mem, r.pg)) + offset ELSE 0

\* returns the translated address (a pure read: MEM_DEFAULT creates nothing)
mem_getPhysicalAddress(s, dir, virtaddr) ==
    IF ~MEM_IS_CANONICAL(virtaddr) THEN 0
    ELSE FrameOfLookedUp(mem_getPage(s, dir, virtaddr - (virtaddr % PAGE_SIZE), MEM_DEFAULT),
                         virtaddr % PAGE_SIZE)

(* ---------------------- mem.c: region allocators ----------------------- *)
\* if (pg) mem_allocatePage(pg, flags);
AllocLookedUp(r, flags) ==
    IF r.pg # NULL /\ r.s.panic = "none" THEN mem_allocatePage(r.s, r.pg, flags) ELSE r.s

\* for (i = start; i < end; i += PAGE_SIZE) { pg = mem_getPage(NULL, i, MEM_CREATE);
\*                                            if (pg) mem_allocatePage(pg, flags); }
RECURSIVE MapLoop(_, _, _, _, _)
MapLoop(s, dir, i, end, flags) ==
    IF ~(i < end) \/ s.panic # "none" THEN s
    ELSE MapLoop(AllocLookedUp(mem_getPage(s, dir, i, MEM_CREATE), flags),
                 dir, (i + PAGE_SIZE) % VA_MOD, end, flags)

\* mem_freePage(pg) for the outcome r of a lookup (NULL is ignored)
FreeLookedUp(r) == mem_freePage(r.s, r.pg)

\* for (i = start; i < end; i += PAGE_SIZE) { pg = mem_getPage(NULL, i, MEM_DEFAULT);
\*                                            if (pg) mem_freePage(pg); }
RECURSIVE UnmapLoop(_, _, _, _)
UnmapLoop(s, dir, i, end) ==
    IF ~(i < end) THEN s
    ELSE UnmapLoop(FreeLookedUp(mem_getPage(s, dir, i, MEM_DEFAULT)),
                   dir, (i + PAGE_SIZE) % VA_MOD, end)

\* if (size % PAGE_SIZE != 0) size = MEM_ALIGN_PAGE(size);
AlignSize(size) == IF size % PAGE_SIZE # 0 THEN MEM_ALIGN_PAGE(size) ELSE size

\* mem_dmaRegion += size; return mem_dmaRegion - size;
DmaMapped(s2, cur, size) ==
    IF s2.panic # "none" THEN [s |-> s2, ret |-> 0]
    ELSE [s |-> [s2 EXCEPT !.mem_dmaRegion = cur], ret |-> (cur - size) % VA_MOD]

\* variant: the pages are mapped with the driver region's flags
mem_allocateDMA_cacheable(s, dir, size0) ==
    IF (s.mem_dmaRegion + AlignSize(size0)) % VA_MOD > MEM_DMA_REGION + MEM_DMA_REGION_SIZE
    THEN [s |-> [s EXCEPT !.panic = "MEMORY_MANAGEMENT_ERROR"], ret |-> 0]
    ELSE DmaMapped(MapLoop(s, dir, s.mem_dmaRegion,
                           (s.mem_dmaRegion + AlignSize(size0)) % VA_MOD, MEM_KERNEL),
                   (s.mem_dmaRegion + AlignSize(size0)) % VA_MOD, AlignSize(size0))

mem_allocateDMA(s, dir, size0) ==
    IF (s.mem_dmaRegion + AlignSize(size0)) % VA_MOD > MEM_DMA_REGION + MEM_DMA_REGION_SIZE
    THEN [s |-> [s EXCEPT !.panic = "MEMORY_MANAGEMENT_ERROR"], ret |-> 0]
    ELSE DmaMapped(MapLoop(s, dir, s.mem_dmaRegion,
                           (s.mem_dmaRegion + AlignSize(size0)) % VA_MOD,
                           MEM_KERNEL + MEM_NOT_CACHEABLE),
                   (s.mem_dmaRegion + AlignSize(size0)) % VA_MOD, AlignSize(size0))

\* variant: the pages are freed but the cursor is not retracted
mem_freeDMA_nocursor(s, dir, base, size0) ==
    IF base = 0 \/ size0 = 0 THEN s
    ELSE IF base = (s.mem_dmaRegion - AlignSize(size0)) % VA_MOD
    THEN UnmapLoop(s, dir, base, (base + AlignSize(size0)) % VA_MOD)
    ELSE [s EXCEPT !.warn = TRUE]

mem_freeDMA(s, dir, base, size0) ==
    IF base = 0 \/ size0 = 0 THEN s
    ELSE IF base = (s.mem_dmaRegion - AlignSize(size0)) % VA_MOD
    THEN UnmapLoop([s EXCEPT !.mem_dmaRegion = base], dir, base,
                   (base + AlignSize(size0)) % VA_MOD)
    ELSE [s EXCEPT !.warn = TRUE]

\* mem_driverRegion += size; return mem_driverRegion - size;
DriverMapped(s2, cur, size) ==
    IF s2.panic # "none" THEN [s |-> s2, ret |-> 0]
    ELSE [s |-> [s2 EXCEPT !.mem_driverRegion = cur], ret |-> (cur - size) % VA_MOD]

mem_mapDriver(s, dir, size0) ==
    IF (s.mem_driverRegion + AlignSize(size0)) % VA_MOD
         > MEM_DRIVER_REGION + MEM_DRIVER_REGION_SIZE
    THEN [s |-> [s EXCEPT !.panic = "MEMORY_MANAGEMENT_ERROR"], ret |-> 0]
    ELSE DriverMapped(MapLoop(s, dir, s.mem_driverRegion,
                              (s.mem_driverRegion + AlignSize(size0)) % VA_MOD, MEM_KERNEL),
                      (s.mem_driverRegion + AlignSize(size0)) % VA_MOD, AlignSize(size0))

\* variant: any base at or below the last allocation is accepted
mem_unmapDriver_anybase(s, dir, base, size0) ==
    IF base <= (s.mem_driverRegion - AlignSize(size0)) % VA_MOD
    THEN UnmapLoop([s EXCEPT !.mem_driverRegion = (@ - AlignSize(size0)) % VA_MOD], dir,
                   (s.mem_driverRegion - AlignSize(size0)) % VA_MOD, s.mem_driverRegion)
    ELSE [s EXCEPT !.warn = TRUE]

mem_unmapDriver(s, dir, base, size0) ==
    IF base = (s.mem_driverRegion - AlignSize(size0)) % VA_MOD
    THEN UnmapLoop([s EXCEPT !.mem_driverRegion = base], dir, base,
                   (base + AlignSize(size0)) % VA_MOD)
    ELSE [s EXCEPT !.warn = TRUE]

(* --------------------------- mem.c: mem_sbrk --------------------------- *)
\* for (i = mem_kernelHeap; i >= mem_kernelHeap + b; i -= 0x1000)
\*     mem_freePage(mem_getPage(NULL, i, 0));
RECURSIVE SbrkFreeLoop(_, _, _, _)
SbrkFreeLoop(s, dir, i, low) ==
    IF ~(i >= low) THEN s
    ELSE SbrkFreeLoop(FreeLookedUp(mem_getPage(s, dir, i, 0)), dir, (i - 4096) % VA_MOD, low)

\* page = mem_getPage(NULL, i, MEM_CREATE); mem_allocatePage(page, MEM_KERNEL);
SbrkAllocLookedUp(r) ==
    IF r.s.panic = "none" THEN mem_allocatePage(r.s, r.pg, MEM_KERNEL) ELSE r.s

\* one round of the growth loop, pagechk being the outcome of the first lookup
SbrkMapPage(pagechk, dir, i) ==
    IF pagechk.pg # NULL /\ Entry(pagechk.s.mem, pagechk.pg).present = 1
    THEN [pagechk.s EXCEPT !.warn = TRUE]
    ELSE SbrkAllocLookedUp(mem_getPage(pagechk.s, dir, i, MEM_CREATE))

\* for (i = mem_kernelHeap; i < mem_kernelHeap + b; i += 0x1000) { ... }
RECURSIVE SbrkMapLoop(_, _, _, _)
SbrkMapLoop(s, dir, i, end) ==
    IF ~(i < end) \/ s.panic # "none" THEN s
    ELSE SbrkMapLoop(SbrkMapPage(mem_getPage(s, dir, i, 0), dir, i),
                     dir, (i + 4096) % VA_MOD, end)

\* variant: the new cursor is returned instead of the old one
SbrkMoved_returnsNew(s2, oldStart, b) ==
    IF s2.panic # "none" THEN [s |-> s2, ret |-> 0]
    ELSE [s |-> [s2 EXCEPT !.mem_kernelHeap = (oldStart + b) % VA_MOD, !.heap_lock = 0],
          ret |-> (oldStart + b) % VA_MOD]

\* variant: the cursor moves against the sign of b
SbrkMoved_subtracts(s2, oldStart, b) ==
    IF s2.panic # "none" THEN [s |-> s2, ret |-> 0]
    ELSE [s |-> [s2 EXCEPT !.mem_kernelHeap = (oldStart - b) % VA_MOD, !.heap_lock = 0],
          ret |-> oldStart]

\* variant: the return without spinlock_release
SbrkMoved_keepsLock(s2, oldStart, b) ==
    IF s2.panic # "none" THEN [s |-> s2, ret |-> 0]
    ELSE [s |-> [s2 EXCEPT !.mem_kernelHeap = (oldStart + b) % VA_MOD], ret |-> oldStart]

\* oldStart = mem_kernelHeap; mem_kernelHeap += b;
\* spinlock_release(&heap_lock); return oldStart;
SbrkMoved(s2, oldStart, b) ==
    IF s2.panic # "none" THEN [s |-> s2, ret |-> 0]
    ELSE [s |-> [s2 EXCEPT !.mem_kernelHeap = (oldStart + b) % VA_MOD, !.heap_lock = 0],
          ret |-> oldStart]

\* dprintf(WARN, "EXPANDING INTO MAP REGION\n") when the new cursor passes the window
SbrkWarned(s, b) ==
    IF (s.mem_kernelHeap + b) % VA_MOD > MEM_PHYSMEM_MAP_REGION
    THEN [s EXCEPT !.warn = TRUE] ELSE s

\* spinlock_acquire(&heap_lock)
spinlock_acquire_heap(s) == [s EXCEPT !.heap_lock = 1]

\* variant: the multiple-of-a-page test is left out
mem_sbrk_unchecked(s, dir, b) ==
    IF s.mem_kernelHeap = 0
    THEN [s |-> [s EXCEPT !.panic = "KERNEL_BAD_ARGUMENT_ERROR"], ret |-> 0]
    ELSE IF b = 0 THEN [s |-> s, ret |-> s.mem_kernelHeap]
    ELSE IF b < 0
    THEN SbrkMoved(SbrkFreeLoop(spinlock_acquire_heap(s), dir, s.mem_kernelHeap,
                                (s.mem_kernelHeap + b) % VA_MOD),
                   s.mem_kernelHeap, b)
    ELSE SbrkMoved(SbrkMapLoop(SbrkWarned(spinlock_acquire_heap(s), b), dir,
                               s.mem_kernelHeap, (s.mem_kernelHeap + b) % VA_MOD),
                   s.mem_kernelHeap, b)

mem_sbrk(s, dir, b) ==
    IF s.mem_kernelHeap = 0
    THEN [s |-> [s EXCEPT !.panic = "KERNEL_BAD_ARGUMENT_ERROR"], ret |-> 0]
    ELSE IF b = 0 THEN [s |-> s, ret |-> s.mem_kernelHeap]
    ELSE IF b % PAGE_SIZE # 0
    THEN [s |-> [s EXCEPT !.panic = "KERNEL_BAD_ARGUMENT_ERROR"], ret |-> 0]
    ELSE IF b < 0
    THEN SbrkMoved(SbrkFreeLoop(spinlock_acquire_heap(s), dir, s.mem_kernelHeap,
                                (s.mem_kernelHeap + b) % VA_MOD),
                   s.mem_kernelHeap, b)
    ELSE SbrkMoved(SbrkMapLoop(SbrkWarned(spinlock_acquire_heap(s), b), dir,
                               s.mem_kernelHeap, (s.mem_kernelHeap + b) % VA_MOD),
                   s.mem_kernelHeap, b)

(* ------------------- state after bootstrap (mem_init) ------------------ *)
\* Physical frames of the statically allocated tables of the kernel image
KERNEL_PML_FRAME == 1
LOW_PDPT_FRAME == 2
LOW_PD_FRAME == 3
LOW_PT_FRAME == 4
HEAP_PDPT_FRAME == 7
HEAP_PD_FRAME == 8
HEAP_PT_FRAME == 9
HIGH_PDPT_FRAME == 12
HIGH_PDS_FRAME == 13
\* mem_lowBasePT[512*3] and mem_heapBasePT[512*3] hold three page tables each
LOW_BASE_PTS == 3
HEAP_BASE_PTS == 3

\* number of page directories of the window (64 of the 512 PDPT entries)
WindowPDs == MEM_PHYSMEM_MAP_SIZE \div PD_SPAN
\* first page after the kernel image and its static tables
kernel_addr == (HIGH_PDS_FRAME + WindowPDs) * PAGE_SIZE
\* linker symbols __text_start / __text_end
KERNEL_TEXT_START == 0
KERNEL_TEXT_END == PAGE_SIZE

\* a page_t with the given low bits and frame
PageBits(p, w, u, sz, frame) ==
    [ZeroPage EXCEPT !.present = p, !.rw = w, !.usermode = u, !.size = sz,
                     !.address = frame]

\* current_cpu->current_dir after the switch to the window alias
current_dir == mem_remapPhys(KERNEL_PML_FRAME * PAGE_SIZE, 0)

\* frames of the page_t arrays of mem.c:47-62
StaticFrames ==
    {KERNEL_PML_FRAME, LOW_PDPT_FRAME, LOW_PD_FRAME, HEAP_PDPT_FRAME, HEAP_PD_FRAME,
     HIGH_PDPT_FRAME}
    \cup {LOW_PT_FRAME + k : k \in 0..(LOW_BASE_PTS - 1)}
    \cup {HEAP_PT_FRAME + k : k \in 0..(HEAP_BASE_PTS - 1)}
    \cup {HIGH_PDS_FRAME + k : k \in 0..(WindowPDs - 1)}

BootTables ==
    LET Tbl(f) ==
          [i \in 0..(TableEntries - 1) |->
            IF f = KERNEL_PML_FRAME THEN
                 IF i = TableEntries - 1 THEN PageBits(1, 1, 1, 0, HIGH_PDPT_FRAME)
                 ELSE IF i = 0 THEN PageBits(1, 1, 1, 0, LOW_PDPT_FRAME)
                 ELSE IF i = TableEntries - 2 THEN PageBits(1, 1, 0, 0, HEAP_PDPT_FRAME)
                 ELSE ZeroPage
            ELSE IF f = HIGH_PDPT_FRAME THEN
                 IF i < WindowPDs THEN PageBits(1, 1, 0, 0, HIGH_PDS_FRAME + i) ELSE ZeroPage
            ELSE IF f >= HIGH_PDS_FRAME THEN
                 PageBits(1, 1, 0, 1,
                          ((f - HIGH_PDS_FRAME) * PD_SPAN + i * PAGE_SIZE_LARGE) \div PAGE_SIZE)
            ELSE IF f = LOW_PDPT_FRAME THEN
                 IF i = 0 THEN PageBits(1, 1, 1, 0, LOW_PD_FRAME) ELSE ZeroPage
            ELSE IF f = LOW_PD_FRAME THEN
                 IF i = 0 THEN PageBits(1, 1, 0, 0, LOW_PT_FRAME) ELSE ZeroPage
            ELSE IF f > LOW_PT_FRAME /\ f < LOW_PT_FRAME + LOW_BASE_PTS THEN ZeroPage
            ELSE IF f = LOW_PT_FRAME THEN
                 PageBits(1, IF KERNEL_TEXT_START <= i * PAGE_SIZE /\ i * PAGE_SIZE < KERNEL_TEXT_END
                             THEN 0 ELSE 1, 0, 0, i)
            ELSE IF f = HEAP_PDPT_FRAME THEN
                 IF i = 0 THEN PageBits(1, 1, 0, 0, HEAP_PD_FRAME) ELSE ZeroPage
            ELSE IF f = HEAP_PD_FRAME THEN
                 IF i < HEAP_BASE_PTS THEN PageBits(1, 1, 0, 0, HEAP_PT_FRAME + i) ELSE ZeroPage
            ELSE \* mem_heapBasePT[(f - HEAP_PT_FRAME) * 512 + i]
                 IF (f - HEAP_PT_FRAME) * TableEntries + i < BitmapPages
                 THEN PageBits(1, 1, 0, 0,
                        (kernel_addr \div PAGE_SIZE) + (f - HEAP_PT_FRAME) * TableEntries + i)
                 ELSE ZeroPage]
    IN  [f \in StaticFrames |-> Tbl(f)]

\* frames not released by arch_mark_memory: the kernel image and the bitmap
BootUsedFrames == 0..((kernel_addr \div PAGE_SIZE) + BitmapPages - 1)

(* ------------------------- mem.c: mem_init ----------------------------- *)
\* the page_t arrays of the kernel image before mem_init runs (= {0})
ZeroedTables == [f \in StaticFrames |-> ZeroTable]

\* mem_kernelHeap before mem_init: 0xAAAAAAAAAAAAAAAA, two thirds of the
\* largest address
HEAP_UNSET == ((VA_MOD - 1) \div 3) * 2

\* variant: the directory entries lack the page-size bit (| 0x03 only)
MapHighBase_nosize(m) ==
    [f \in DOMAIN m |->
        IF f = KERNEL_PML_FRAME
        THEN [m[f] EXCEPT ![TableEntries - 1] = PageBits(1, 1, 1, 0, HIGH_PDPT_FRAME)]
        ELSE IF f = HIGH_PDPT_FRAME
        THEN [i \in 0..(TableEntries - 1) |->
                IF i < WindowPDs
                THEN [m[f][i] EXCEPT !.address = HIGH_PDS_FRAME + i, !.present = 1, !.rw = 1]
                ELSE m[f][i]]
        ELSE IF f >= HIGH_PDS_FRAME /\ f < HIGH_PDS_FRAME + WindowPDs
        THEN [j \in 0..(TableEntries - 1) |->
                PageBits(1, 1, 0, 0,
                         ((f - HIGH_PDS_FRAME) * PD_SPAN + j * PAGE_SIZE_LARGE) \div PAGE_SIZE)]
        ELSE m[f]]

\* mem_kernelPML[0][511].data = &mem_highBasePDPT[0] | 0x07, then one PDPT
\* entry and one directory of large pages per window directory:
\* mem_highBasePDs[i][j].data = ((i << 30) + (j << 21)) | 0x80 | 0x03
MapHighBase(m) ==
    [f \in DOMAIN m |->
        IF f = KERNEL_PML_FRAME
        THEN [m[f] EXCEPT ![TableEntries - 1] = PageBits(1, 1, 1, 0, HIGH_PDPT_FRAME)]
        ELSE IF f = HIGH_PDPT_FRAME
        THEN [i \in 0..(TableEntries - 1) |->
                IF i < WindowPDs
                THEN [m[f][i] EXCEPT !.address = HIGH_PDS_FRAME + i, !.present = 1, !.rw = 1]
                ELSE m[f][i]]
        ELSE IF f >= HIGH_PDS_FRAME /\ f < HIGH_PDS_FRAME + WindowPDs
        THEN [j \in 0..(TableEntries - 1) |->
                PageBits(1, 1, 0, 1,
                         ((f - HIGH_PDS_FRAME) * PD_SPAN + j * PAGE_SIZE_LARGE) \div PAGE_SIZE)]
        ELSE m[f]]

\* kernel_pts = (kernel_pages >= 512) ? (kernel_pages / 512) + ((kernel_pages%512) ? 1 : 0) : 1
KernelPts(kernel_pages) ==
    IF kernel_pages >= TableEntries
    THEN (kernel_pages \div TableEntries)
         + (IF kernel_pages % TableEntries # 0 THEN 1 ELSE 0)
    ELSE 1

\* the three size tests of mem_init
KernelTooBig(kernel_pts) ==
    \/ (kernel_pts \div TableEntries) \div TableEntries > 1
    \/ kernel_pts \div TableEntries > 1
    \/ kernel_pts > LOW_BASE_PTS

\* variant: every page table addresses the frames of the first one
MapLowBase_firsttable(m, kernel_pts) ==
    [f \in DOMAIN m |->
        IF f = LOW_PDPT_FRAME
        THEN [m[f] EXCEPT ![0] = [@ EXCEPT !.address = LOW_PD_FRAME, !.present = 1,
                                           !.rw = 1, !.usermode = 1]]
        ELSE IF f = LOW_PD_FRAME
        THEN [i \in 0..(TableEntries - 1) |->
                IF i < kernel_pts
                THEN [m[f][i] EXCEPT !.address = LOW_PT_FRAME + i, !.present = 1, !.rw = 1]
                ELSE m[f][i]]
        ELSE IF f >= LOW_PT_FRAME /\ f < LOW_PT_FRAME + kernel_pts
        THEN [j \in 0..(TableEntries - 1) |->
                [m[f][j] EXCEPT !.address = j, !.present = 1, !.rw = 1]]
        ELSE IF f = KERNEL_PML_FRAME
        THEN [m[f] EXCEPT ![0] = PageBits(1, 1, 1, 0, LOW_PDPT_FRAME)]
        ELSE m[f]]

\* mem_lowBasePDPT[0], then one directory entry and one full page table per
\* kernel_pts, then mem_kernelPML[0][0].data = &mem_lowBasePDPT[0] | 0x07
MapLowBase(m, kernel_pts) ==
    [f \in DOMAIN m |->
        IF f = LOW_PDPT_FRAME
        THEN [m[f] EXCEPT ![0] = [@ EXCEPT !.address = LOW_PD_FRAME, !.present = 1,
                                           !.rw = 1, !.usermode = 1]]
        ELSE IF f = LOW_PD_FRAME
        THEN [i \in 0..(TableEntries - 1) |->
                IF i < kernel_pts
                THEN [m[f][i] EXCEPT !.address = LOW_PT_FRAME + i, !.present = 1, !.rw = 1]
                ELSE m[f][i]]
        ELSE IF f >= LOW_PT_FRAME /\ f < LOW_PT_FRAME + kernel_pts
        THEN [j \in 0..(TableEntries - 1) |->
                [m[f][j] EXCEPT !.address = TableEntries * (f - LOW_PT_FRAME) + j,
                                !.present = 1, !.rw = 1]]
        ELSE IF f = KERNEL_PML_FRAME
        THEN [m[f] EXCEPT ![0] = PageBits(1, 1, 1, 0, LOW_PDPT_FRAME)]
        ELSE m[f]]

\* mem_kernelPML[0][510], mem_heapBasePDPT[0], mem_heapBasePD[0..2] and the
\* first frame_pages entries of mem_heapBasePT, which address
\* (kernel_addr + (i << 12)) >> MEM_PAGE_SHIFT
MapHeapBase(m, kaddr, frame_pages) ==
    [f \in DOMAIN m |->
        IF f = KERNEL_PML_FRAME
        THEN [m[f] EXCEPT ![TableEntries - 2] =
                  [@ EXCEPT !.address = HEAP_PDPT_FRAME, !.present = 1, !.rw = 1]]
        ELSE IF f = HEAP_PDPT_FRAME
        THEN [m[f] EXCEPT ![0] = [@ EXCEPT !.address = HEAP_PD_FRAME, !.present = 1, !.rw = 1]]
        ELSE IF f = HEAP_PD_FRAME
        THEN [i \in 0..(TableEntries - 1) |->
                IF i < HEAP_BASE_PTS
                THEN [m[f][i] EXCEPT !.address = HEAP_PT_FRAME + i, !.present = 1, !.rw = 1]
                ELSE m[f][i]]
        ELSE IF f >= HEAP_PT_FRAME /\ f < HEAP_PT_FRAME + HEAP_BASE_PTS
        THEN [j \in 0..(TableEntries - 1) |->
                IF (f - HEAP_PT_FRAME) * TableEntries + j < frame_pages
                THEN [m[f][j] EXCEPT
                        !.address = (kaddr
                                     + ((f - HEAP_PT_FRAME) * TableEntries + j) * PAGE_SIZE)
                                    \div PAGE_SIZE,
                        !.present = 1, !.rw = 1]
                ELSE m[f][j]]
        ELSE m[f]]

\* page_t *pg = mem_getPage(NULL, i, MEM_DEFAULT); if (pg) pg->bits.rw = 0;
ClearRwLookedUp(r) ==
    IF r.pg = NULL THEN r.s
    ELSE [r.s EXCEPT !.mem = SetEntry(r.s.mem, r.pg, [Entry(r.s.mem, r.pg) EXCEPT !.rw = 0])]

\* for (i = kernel_code_start; i < kernel_code_end; i += PAGE_SIZE) { ... }
RECURSIVE TextLoop(_, _, _)
TextLoop(s, i, kernel_code_end) ==
    IF ~(i < kernel_code_end) THEN s
    ELSE TextLoop(ClearRwLookedUp(mem_getPage(s, current_dir, i, MEM_DEFAULT)),
                  (i + PAGE_SIZE) % VA_MOD, kernel_code_end)

\* frames marked used once pmm_init and arch_mark_memory have run: the kernel
\* image with its tables and the bitmap that follows it
UsedAfterInit(kaddr, frame_pages) ==
    (0..((kaddr \div PAGE_SIZE) + frame_pages - 1)) \cup StaticFrames

\* mem_init once the kernel has passed the size tests
InitMapped(s, kaddr, kernel_pts, frame_pages, text_start, text_end) ==
    TextLoop([s EXCEPT !.mem = MapHeapBase(MapLowBase(MapHighBase(s.mem), kernel_pts),
                                           kaddr, frame_pages),
                       !.pmm = UsedAfterInit(kaddr, frame_pages),
                       !.mem_kernelHeap = MEM_HEAP_REGION + frame_pages * PAGE_SIZE],
             text_start, (text_end \div PAGE_SIZE) * PAGE_SIZE)

\* mem_init(mem_size, kernel_addr = kaddr), with the linker symbols __text_start and
\* __text_end; frame_pages is the size of the bitmap for mem_size
mem_init(s, frame_pages, kaddr, text_start, text_end) ==
    IF KernelTooBig(KernelPts(MEM_ALIGN_PAGE(kaddr) \div PAGE_SIZE))
    THEN [s EXCEPT !.mem = MapHighBase(s.mem), !.panic = "MEMORY_MANAGEMENT_ERROR"]
    ELSE InitMapped(s, kaddr, KernelPts(MEM_ALIGN_PAGE(kaddr) \div PAGE_SIZE),
                    frame_pages, text_start, text_end)

(* ------------------------ alloc.c: the facade -------------------------- *)
\* errno values returned negated by alloc_startProfiling
ENOTSUP == 95
EINPROGRESS == 115
\* 0xFFFFFFFF in the source; TLC's integers end at 2^31 - 1, which is likewise
\* above every size a call of the model requests
UINT32_MAX == 2147483647

\* profile_data == NULL
NoProfile == [active |-> FALSE]

\* the facade's state a: alloc_info (the cached descriptor pointer),
\* profile_data, the descriptor alloc_getInfo() returns, the number of calls
\* forwarded to the backing allocator, and the fatal stop if any
\* if (profile_data != NULL) { requests++; bytes_allocated += size; ... }
ProfileRequest(a, size) ==
    IF a.profile_data = NoProfile THEN a
    ELSE [a EXCEPT !.profile_data =
            [@ EXCEPT !.requests = @ + 1,
                      !.bytes_allocated = @ + size,
                      !.most_bytes_allocated = IF size > @ THEN size ELSE @,
                      !.least_bytes_allocated = IF size < @ THEN size ELSE @]]

\* alloc_malloc / alloc_realloc / alloc_calloc / alloc_valloc / alloc_free
Forward(a) == [a EXCEPT !.forwarded = @ + 1]

kmalloc(a, size) == Forward(ProfileRequest(a, size))

krealloc(a, size) == Forward(ProfileRequest(a, size))

\* variant: kcalloc counts the size of one element
kcalloc_oneElement(a, elements, size) == Forward(ProfileRequest(a, size))

kcalloc(a, elements, size) == Forward(ProfileRequest(a, elements * size))

\* if (profile_data != NULL) profile_data->requests++; alloc_free(ptr);
kfree(a) ==
    Forward(IF a.profile_data = NoProfile THEN a
            ELSE [a EXCEPT !.profile_data.requests = @ + 1])

\* if (alloc_info == NULL) alloc_info = alloc_getInfo(); return alloc_info->support_valloc;
alloc_canHasValloc(a) ==
    [a |-> [a EXCEPT !.alloc_info = "info"], ret |-> a.info.support_valloc]

\* kvalloc once alloc_canHasValloc has answered
VallocAnswered(r, size) ==
    IF r.ret # 0 THEN Forward(ProfileRequest(r.a, size))
    ELSE [r.a EXCEPT !.panic = "UNSUPPORTED_FUNCTION_ERROR"]

\* variant: kvalloc without the capability test
kvalloc_unguarded(a, size) == Forward(ProfileRequest(a, size))

kvalloc(a, size) == VallocAnswered(alloc_canHasValloc(a), size)

\* profile_data = kmalloc(sizeof(profile_info_t)); memset(profile_data, 0, ...);
\* time_start = now(); least_bytes_allocated = UINT32_MAX;
ProfileStarted(a, now) ==
    [a EXCEPT !.profile_data =
        [active |-> TRUE, requests |-> 0, bytes_allocated |-> 0,
         most_bytes_allocated |-> 0, least_bytes_allocated |-> UINT32_MAX,
         time_start |-> now, time_end |-> 0]]

\* variant: a second start begins a fresh record
alloc_startProfiling_restarts(a, force_begin_profiling, now) ==
    IF a.info.support_profile = 0 THEN [a |-> a, ret |-> 0 - ENOTSUP]
    ELSE [a |-> ProfileStarted(kmalloc(a, 1), now), ret |-> 0]

alloc_startProfiling(a, force_begin_profiling, now) ==
    IF a.info.support_profile = 0 THEN [a |-> a, ret |-> 0 - ENOTSUP]
    ELSE IF a.profile_data # NoProfile
    THEN IF force_begin_profiling # 0 THEN [a |-> a, ret |-> 0 - ENOTSUP]
         ELSE [a |-> a, ret |-> 0 - EINPROGRESS]
    ELSE [a |-> ProfileStarted(kmalloc(a, 1), now), ret |-> 0]

\* returns the record (ret) or NULL, here NoProfile
alloc_stopProfiling(a, now) ==
    IF a.profile_data = NoProfile THEN [a |-> a, ret |-> NoProfile]
    ELSE [a |-> [a EXCEPT !.profile_data = NoProfile],
          ret |-> [a.profile_data EXCEPT !.time_end = now]]

(* ------------------------------ state ---------------------------------- *)
\* mem, pmm, panic and the three cursors are the kernel's state; held is the
\* page_t pointer the caller got from its last mem_getPage; last records the
\* last call (arguments, result, the PTE and the region cursor it started
\* from); outstanding and lifo keep, per region, the allocations handed out
\* and not yet taken back in LIFO order; steps counts the calls made.
VARIABLES mem, pmm, panic, mem_kernelHeap, mem_driverRegion, mem_dmaRegion,
          heap_lock, held, last, outstanding, lifo, steps,
          alloc_info, profile_data, allocator, stopped, requested,
          cpu, driver_lock, dma_lock, owed

vars == <<mem, pmm, panic, mem_kernelHeap, mem_driverRegion, mem_dmaRegion,
          heap_lock, held, last, outstanding, lifo, steps,
          alloc_info, profile_data, allocator, stopped, requested,
          cpu, driver_lock, dma_lock, owed>>

\* owed is history: the heap pages mem_sbrk was asked to add and has not yet
\* been asked to take back, and whether every shrink so far asked only for
\* such pages
NothingOwed == [pages |-> {}, matched |-> TRUE]

\* the processors: where each stands inside a region call, and the two
\* region spinlocks (0 when free, else the processor holding it)
smpVars == <<cpu, driver_lock, dma_lock>>

MaxCpus == 2
MaxSmpSteps == 8
Cpus == 1..MaxCpus
\* where a processor stands inside mem_getPage: the level of the entry it is
\* at (4 = PML4 ... 1 = PT), the entry and the address looked up
NoWalk == [level |-> 0, entry |-> NULL, va |-> 0]
IdleCpu == [pc |-> "idle", region |-> "none", size |-> 0, base |-> 0, seen |-> 0,
            mapped |-> 0, walk |-> NoWalk]

\* static spinlock_t driver_lock = {0}, dma_lock = {0}; no processor in a call
InitSmp ==
    /\ cpu = [c \in Cpus |-> IdleCpu]
    /\ driver_lock = 0
    /\ dma_lock = 0

\* the facade's variables: the cached descriptor pointer, the profiling record,
\* the backing allocator (its descriptor and the number of calls forwarded to
\* it) and the record the last alloc_stopProfiling returned
allocVars == <<alloc_info, profile_data, allocator, stopped, requested>>

\* requested is history: the sizes asked of the facade, in call order, since
\* the last alloc_startProfiling that returned 0 (FREED for a kfree)
FREED == 0 - 1

\* the facade before its first call, over a backing allocator with descriptor d
InitFacade(d) ==
    /\ alloc_info = "NULL"
    /\ profile_data = NoProfile
    /\ allocator = [info |-> d, forwarded |-> 0]
    /\ stopped = NoProfile
    /\ requested = <<>>

Call(op, x, y, flags, ret, pg, warn, pre, cur0) ==
    [op |-> op, x |-> x, y |-> y, flags |-> flags, ret |-> ret, pg |-> pg,
     warn |-> warn, pre |-> pre, cur0 |-> cur0]

Regions == {"driver", "dma"}

Init ==
    /\ mem = BootTables
    /\ pmm = BootUsedFrames
    /\ panic = "none"
    /\ mem_kernelHeap = MEM_HEAP_REGION + BitmapPages * PAGE_SIZE
    /\ mem_driverRegion = MEM_DRIVER_REGION
    /\ mem_dmaRegion = MEM_DMA_REGION
    /\ heap_lock = 0
    /\ held = NULL
    /\ last = Call("init", 0, 0, 0, 0, NULL, FALSE, ZeroPage, 0)
    /\ outstanding = [r \in Regions |-> <<>>]
    /\ lifo = [r \in Regions |-> [ok |-> TRUE, pops |-> 0, peak |-> 0]]
    /\ steps = 0
    /\ InitFacade([support_valloc |-> 1, support_profile |-> 1])
    /\ InitSmp
    /\ owed = NothingOwed

\* the kernel state the next call starts from
Cur == [mem |-> mem, pmm |-> pmm, panic |-> panic, warn |-> FALSE,
        mem_kernelHeap |-> mem_kernelHeap, mem_driverRegion |-> mem_driverRegion,
        mem_dmaRegion |-> mem_dmaRegion, heap_lock |-> heap_lock]

\* the kernel state a call leaves behind
CommitKernel(s) ==
    /\ mem' = s.mem
    /\ pmm' = s.pmm
    /\ panic' = s.panic
    /\ mem_kernelHeap' = s.mem_kernelHeap
    /\ mem_driverRegion' = s.mem_driverRegion
    /\ mem_dmaRegion' = s.mem_dmaRegion
    /\ heap_lock' = s.heap_lock
    /\ steps' = steps + 1
    /\ UNCHANGED allocVars
    /\ UNCHANGED smpVars

Commit(s) == CommitKernel(s) /\ UNCHANGED owed

\* a fatal stop halts the kernel; the call budget bounds the run
Running == panic = "none" /\ steps < MaxOps

(* ------------------------------ inputs --------------------------------- *)
VA_KERNEL_PAGE == PAGE_SIZE
VA_LOW_UNMAPPED == PD_SPAN
VA_HEAP_PAGE == MEM_HEAP_REGION + BitmapPages * PAGE_SIZE
VA_WINDOW == MEM_PHYSMEM_MAP_REGION + PAGE_SIZE
VA_NONCANON_LOW == HighBitsMax * VA_SPAN + PD_SPAN
VA_NONCANON_HIGH == (TableEntries \div 2) * PDPT_SPAN
PHYS_DEVICE == (NFrames + 2) * PAGE_SIZE

\* the last byte of the window
VA_WINDOW_LAST == MEM_PHYSMEM_MAP_REGION + MEM_PHYSMEM_MAP_SIZE - 1

LookupVAs == {VA_WINDOW_LAST, VA_KERNEL_PAGE, VA_LOW_UNMAPPED, VA_LOW_UNMAPPED + 1, VA_HEAP_PAGE,
              VA_HEAP_PAGE + 1, VA_WINDOW, MEM_DRIVER_REGION + 4095,
              VA_NONCANON_LOW, VA_NONCANON_HIGH + 1}
LookupFlags == {MEM_DEFAULT, MEM_CREATE, MEM_KERNEL}
MapVAs == {VA_LOW_UNMAPPED, VA_LOW_UNMAPPED + 1, VA_HEAP_PAGE, VA_WINDOW, VA_NONCANON_LOW}
MapPhys == {PHYS_DEVICE, PHYS_DEVICE + 5}
AllocFlags == {MEM_DEFAULT, MEM_KERNEL + MEM_READONLY, MEM_NOALLOC + MEM_NOT_PRESENT,
               MEM_WRITETHROUGH + MEM_NOT_CACHEABLE, MEM_FREE_PAGE + MEM_KERNEL,
               MEM_FREE_PAGE + MEM_WRITETHROUGH}
RegionSizes == {1, 2 * PAGE_SIZE, VA_MOD - PAGE_SIZE}
FreeSizes == {0, 1, 2 * PAGE_SIZE, VA_MOD - PAGE_SIZE}
FreeOffsets == {0, PAGE_SIZE, 2 * PAGE_SIZE}
SbrkArgs == {0, PAGE_SIZE, 2 * PAGE_SIZE, 0 - PAGE_SIZE, 1, 0 - 1}
SbrkGrowArgs == {0, PAGE_SIZE, 2 * PAGE_SIZE, 3 * PAGE_SIZE, PD_SPAN, PDPT_SPAN}
SbrkLargeArgs == {PAGE_SIZE, 0 - PAGE_SIZE, PDPT_SPAN - PAGE_SIZE, PDPT_SPAN}

(* ------------------------------ actions -------------------------------- *)
\* the caller keeps the page_t pointer r.pg
GetPageDone(r, va, flags) ==
    /\ Commit(r.s)
    /\ held' = r.pg
    /\ last' = Call("getPage", va, 0, flags, 0, r.pg, r.s.warn, ZeroPage, 0)

GetPage ==
    /\ Running
    /\ \E va \in LookupVAs, flags \in LookupFlags :
         GetPageDone(mem_getPage(Cur, current_dir, va, flags), va, flags)
    /\ UNCHANGED <<outstanding, lifo>>

\* a call that returns nothing, leaving the kernel in state s
VoidDone(s, op, x, y, flags, pg, cur0) ==
    /\ Commit(s)
    /\ last' = Call(op, x, y, flags, 0, pg, s.warn, Entry(mem, pg), cur0)

MapAddress ==
    /\ Running
    /\ \E va \in MapVAs, phys \in MapPhys :
         VoidDone(mem_mapAddress(Cur, current_dir, phys, va), "mapAddress", va, phys, 0,
                  NULL, 0)
    /\ UNCHANGED <<held, outstanding, lifo>>

GetPhysicalAddress ==
    /\ Running
    /\ \E va \in LookupVAs :
         /\ Commit(Cur)
         /\ last' = Call("getPhysicalAddress", va, 0, 0,
                         mem_getPhysicalAddress(Cur, current_dir, va), NULL, FALSE,
                         ZeroPage, 0)
    /\ UNCHANGED <<held, outstanding, lifo>>

AllocatePage ==
    /\ Running
    /\ \E flags \in AllocFlags :
         VoidDone(mem_allocatePage(Cur, held, flags), "allocatePage", 0, 0, flags, held, 0)
    /\ UNCHANGED <<held, outstanding, lifo>>

FreePage ==
    /\ Running
    /\ VoidDone(mem_freePage(Cur, held), "freePage", 0, 0, 0, held, 0)
    /\ UNCHANGED <<held, outstanding, lifo>>

\* bookkeeping of the allocations a region has handed out and not taken back
IsTop(r, base, size) ==
    Len(outstanding[r]) > 0 /\ outstanding[r][Len(outstanding[r])] = <<base, size>>

Allocated(r, s, base, size) ==
    /\ outstanding' = IF s.panic = "none"
                      THEN [outstanding EXCEPT ![r] = Append(@, <<base, size>>)]
                      ELSE outstanding
    /\ lifo' = IF s.panic = "none" /\ Len(outstanding[r]) + 1 > lifo[r].peak
               THEN [lifo EXCEPT ![r].peak = Len(outstanding[r]) + 1]
               ELSE lifo

Freed(r, base, size, moved) ==
    /\ outstanding' = IF IsTop(r, base, size)
                      THEN [outstanding EXCEPT ![r] = SubSeq(@, 1, Len(@) - 1)]
                      ELSE outstanding
    /\ lifo' = IF IsTop(r, base, size) THEN [lifo EXCEPT ![r].pops = @ + 1]
               ELSE IF moved THEN [lifo EXCEPT ![r].ok = FALSE]
               ELSE lifo

\* a region_alloc that returned r.ret, leaving the kernel in state r.s
AllocDone(r, op, region, size, cur0) ==
    /\ Commit(r.s)
    /\ last' = Call(op, size, 0, 0, r.ret, NULL, r.s.warn, ZeroPage, cur0)
    /\ Allocated(region, r.s, r.ret, size)

\* a region_free that left the kernel in state s
FreeDone(s, op, region, base, size, cur0, curAfter) ==
    /\ VoidDone(s, op, size, base, 0, NULL, cur0)
    /\ Freed(region, base, size, curAfter # cur0)

AllocateDMA ==
    /\ Running
    /\ \E size \in RegionSizes :
         AllocDone(mem_allocateDMA(Cur, current_dir, size), "allocateDMA", "dma", size,
                   mem_dmaRegion)
    /\ UNCHANGED held

FreeDMA ==
    /\ Running
    /\ \E base \in {MEM_DMA_REGION + off : off \in FreeOffsets} \cup {0},
          size \in FreeSizes :
         FreeDone(mem_freeDMA(Cur, current_dir, base, size), "freeDMA", "dma", base, size,
                  mem_dmaRegion, mem_dmaRegion')
    /\ UNCHANGED held

MapDriver ==
    /\ Running
    /\ \E size \in RegionSizes :
         AllocDone(mem_mapDriver(Cur, current_dir, size), "mapDriver", "driver", size,
                   mem_driverRegion)
    /\ UNCHANGED held

UnmapDriver ==
    /\ Running
    /\ \E base \in {MEM_DRIVER_REGION + off : off \in FreeOffsets}, size \in FreeSizes :
         FreeDone(mem_unmapDriver(Cur, current_dir, base, size), "unmapDriver", "driver",
                  base, size, mem_driverRegion, mem_driverRegion')
    /\ UNCHANGED held

\* the pages of [lo, hi)
PagesIn(lo, hi) == {lo + k * PAGE_SIZE : k \in 0..(((hi - lo) \div PAGE_SIZE) - 1)}

\* the caller's ledger after mem_sbrk(b) from cursor c: a growth adds the
\* pages of [c, c + b), a shrink takes back the pages of [c + b, c)
SbrkAsked(o, c, b) ==
    IF b >= 0 THEN [o EXCEPT !.pages = @ \cup PagesIn(c, c + b)]
    ELSE IF PagesIn(c + b, c) \subseteq o.pages
    THEN [o EXCEPT !.pages = @ \ PagesIn(c + b, c)]
    ELSE [o EXCEPT !.matched = FALSE]

\* mem_sbrk returned r.ret, leaving the kernel in state r.s
SbrkDone(r, b) ==
    /\ CommitKernel(r.s)
    /\ owed' = IF r.s.panic # "none" THEN owed ELSE SbrkAsked(owed, mem_kernelHeap, b)
    /\ last' = Call("sbrk", b, 0, 0, r.ret, NULL, r.s.warn, ZeroPage, mem_kernelHeap)

\* mem_sbrk(b) for b drawn from args; a shrink that would run the unsigned
\* loop variable through zero never terminates and is left out
SbrkCall(args) ==
    /\ Running
    /\ \E b \in args :
         /\ b < 0 => mem_kernelHeap + b > 0
         /\ SbrkDone(mem_sbrk(Cur, current_dir, b), b)
    /\ UNCHANGED <<held, outstanding, lifo>>

Sbrk == SbrkCall(SbrkArgs)

SbrkLarge == SbrkCall(SbrkLargeArgs)

SbrkGrow == SbrkCall(SbrkGrowArgs)

\* mem_remapPhys(frame_address, size) as a call: the size test, then the alias
RemapPhysArgs == {0, PAGE_SIZE, PAGE_SIZE + 8, MEM_PHYSMEM_MAP_SIZE - PAGE_SIZE,
                  MEM_PHYSMEM_MAP_SIZE, PDPT_SPAN - PAGE_SIZE, PDPT_SPAN,
                  PDPT_SPAN + PAGE_SIZE, 2 * PDPT_SPAN}
RemapSizes == {0, PAGE_SIZE, 2 * PAGE_SIZE, MEM_PHYSMEM_MAP_SIZE, MEM_PHYSMEM_MAP_SIZE + 1}

RemapPhysDone(s, frame_address, size, ret) ==
    /\ Commit(s)
    /\ last' = Call("remapPhys", frame_address, size, 0, ret, NULL, FALSE, ZeroPage, 0)

RemapPhys ==
    /\ Running
    /\ \E frame_address \in RemapPhysArgs, size \in RemapSizes :
         IF size > MEM_PHYSMEM_MAP_SIZE
         THEN RemapPhysDone([Cur EXCEPT !.panic = "KERNEL_BAD_ARGUMENT_ERROR"],
                            frame_address, size, 0)
         ELSE RemapPhysDone(Cur, frame_address, size, mem_remapPhys(frame_address, size))
    /\ UNCHANGED <<held, outstanding, lifo>>

NextRemap == RemapPhys

SpecRemap == Init /\ [][NextRemap]_vars

\* the page API: lookups, mappings and leaf-page allocation by a caller
NextPage ==
    \/ GetPage
    \/ MapAddress
    \/ GetPhysicalAddress
    \/ AllocatePage
    \/ FreePage

SpecPage == Init /\ [][NextPage]_vars

\* the driver and DMA region allocators
NextRegion ==
    \/ AllocateDMA
    \/ FreeDMA
    \/ MapDriver
    \/ UnmapDriver

SpecRegion == Init /\ [][NextRegion]_vars

\* the kernel heap cursor
NextHeap ==
    \/ Sbrk
    \/ SbrkLarge

SpecHeap == Init /\ [][NextHeap]_vars

\* growth of the three regions up to and past their limits
NextGrow ==
    \/ SbrkLarge
    \/ AllocateDMA
    \/ MapDriver

SpecGrow == Init /\ [][NextGrow]_vars

Next ==
    \/ NextPage
    \/ NextRegion
    \/ NextHeap

Spec == Init /\ [][Next]_vars

(* ------------------------------ bootstrap ------------------------------ *)
\* kernel_addr handed over by the loader: every half page up to one page past
\* what three page tables cover
KernelAddrs == {k * (PAGE_SIZE \div 2) : k \in 1..(2 * (LOW_BASE_PTS * TableEntries + 1))}
TextStarts == {0, PAGE_SIZE \div 2, PAGE_SIZE}
TextEnds == {PAGE_SIZE + k * (PAGE_SIZE \div 2) : k \in 0..3}

\* the kernel as the loader leaves it: tables zeroed, mem_init not yet called;
\* last carries kernel_addr (x), __text_start (y) and __text_end (flags)
InitBoot ==
    /\ mem = ZeroedTables
    /\ pmm = {}
    /\ panic = "none"
    /\ mem_kernelHeap = HEAP_UNSET
    /\ mem_driverRegion = MEM_DRIVER_REGION
    /\ mem_dmaRegion = MEM_DMA_REGION
    /\ heap_lock = 0
    /\ held = NULL
    /\ \E ka \in KernelAddrs, ts \in TextStarts, te \in TextEnds :
         /\ ts < te
         /\ te <= ka
         /\ last = Call("boot", ka, ts, te, 0, NULL, FALSE, ZeroPage, 0)
    /\ outstanding = [r \in Regions |-> <<>>]
    /\ lifo = [r \in Regions |-> [ok |-> TRUE, pops |-> 0, peak |-> 0]]
    /\ steps = 0
    /\ InitFacade([support_valloc |-> 1, support_profile |-> 1])
    /\ InitSmp
    /\ owed = NothingOwed

MemInitDone(s) ==
    /\ Commit(s)
    /\ last' = Call("mem_init", last.x, last.y, last.flags, 0, NULL, s.warn, ZeroPage, 0)

MemInit ==
    /\ last.op \in {"boot", "sbrk"}
    /\ panic = "none"
    /\ MemInitDone(mem_init(Cur, BitmapPages, last.x, last.y, last.flags))
    /\ UNCHANGED <<held, outstanding, lifo>>

NextBoot == MemInit

SpecBoot == InitBoot /\ [][NextBoot]_vars

\* mem_sbrk(b) called before mem_init, for the b that return or stop before
\* the heap lock is taken (the page tables of the loader are not modelled);
\* last keeps the arguments mem_init will be called with
EarlySbrkArgs == {0, 1, 0 - 1}

SbrkEarlyDone(r) ==
    /\ Commit(r.s)
    /\ last' = Call("sbrk", last.x, last.y, last.flags, r.ret, NULL, r.s.warn, ZeroPage,
                    mem_kernelHeap)

SbrkEarly ==
    /\ last.op \in {"boot", "sbrk"}
    /\ Running
    /\ \E b \in EarlySbrkArgs : SbrkEarlyDone(mem_sbrk(Cur, current_dir, b))
    /\ UNCHANGED <<held, outstanding, lifo>>

NextEarly ==
    \/ SbrkEarly
    \/ MemInit

SpecEarly == InitBoot /\ [][NextEarly]_vars

(* --------------------------- facade calls ------------------------------ *)
Descriptors == [support_valloc : {0, 1}, support_profile : {0, 1}]
AllocSizes == {0, 8, PAGE_SIZE}
ForceArgs == {0, 1}

\* the kernel after mem_init, over any backing allocator
InitAlloc ==
    /\ mem = BootTables
    /\ pmm = BootUsedFrames
    /\ panic = "none"
    /\ mem_kernelHeap = MEM_HEAP_REGION + BitmapPages * PAGE_SIZE
    /\ mem_driverRegion = MEM_DRIVER_REGION
    /\ mem_dmaRegion = MEM_DMA_REGION
    /\ heap_lock = 0
    /\ held = NULL
    /\ last = Call("init", 0, 0, 0, 0, NULL, FALSE, ZeroPage, 0)
    /\ outstanding = [r \in Regions |-> <<>>]
    /\ lifo = [r \in Regions |-> [ok |-> TRUE, pops |-> 0, peak |-> 0]]
    /\ steps = 0
    /\ \E d \in Descriptors : InitFacade(d)
    /\ InitSmp
    /\ owed = NothingOwed

\* the facade's state the next call starts from
CurAlloc == [alloc_info |-> alloc_info, profile_data |-> profile_data,
             info |-> allocator.info, forwarded |-> allocator.forwarded,
             panic |-> panic]

\* a facade call (op with argument x and second argument y) left the facade
\* in state a and returned ret
FacadeDone(a, op, x, y, ret) ==
    /\ alloc_info' = a.alloc_info
    /\ profile_data' = a.profile_data
    /\ allocator' = [info |-> a.info, forwarded |-> a.forwarded]
    /\ panic' = a.panic
    /\ steps' = steps + 1
    /\ last' = Call(op, x, y, 0, ret, NULL, FALSE, ZeroPage, 0)
    /\ requested' = IF a.panic # "none" THEN requested
                     ELSE IF op = "alloc_startProfiling"
                     THEN (IF ret = 0 THEN <<>> ELSE requested)
                     ELSE IF op = "alloc_stopProfiling" THEN requested
                     ELSE IF op = "kfree" THEN Append(requested, FREED)
                     ELSE IF op = "kcalloc" THEN Append(requested, x * y)
                     ELSE Append(requested, x)
    /\ UNCHANGED <<mem, pmm, mem_kernelHeap, mem_driverRegion, mem_dmaRegion,
                   heap_lock, held, outstanding, lifo, owed>>
    /\ UNCHANGED smpVars

Kmalloc ==
    /\ Running
    /\ \E size \in AllocSizes : FacadeDone(kmalloc(CurAlloc, size), "kmalloc", size, 0, 0)
    /\ UNCHANGED stopped

Krealloc ==
    /\ Running
    /\ \E size \in AllocSizes : FacadeDone(krealloc(CurAlloc, size), "krealloc", size, 0, 0)
    /\ UNCHANGED stopped

Kcalloc ==
    /\ Running
    /\ \E elements \in {1, 2}, size \in AllocSizes :
         FacadeDone(kcalloc(CurAlloc, elements, size), "kcalloc", size, elements, 0)
    /\ UNCHANGED stopped

Kvalloc ==
    /\ Running
    /\ \E size \in AllocSizes : FacadeDone(kvalloc(CurAlloc, size), "kvalloc", size, 0, 0)
    /\ UNCHANGED stopped

Kfree ==
    /\ Running
    /\ FacadeDone(kfree(CurAlloc), "kfree", 0, 0, 0)
    /\ UNCHANGED stopped

StartProfilingDone(r, force) == FacadeDone(r.a, "alloc_startProfiling", force, 0, r.ret)

StartProfiling ==
    /\ Running
    /\ \E force \in ForceArgs :
         StartProfilingDone(alloc_startProfiling(CurAlloc, force, steps + 1), force)
    /\ UNCHANGED stopped

StopProfilingDone(r) ==
    /\ FacadeDone(r.a, "alloc_stopProfiling", 0, 0, 0)
    /\ stopped' = r.ret

StopProfiling ==
    /\ Running
    /\ StopProfilingDone(alloc_stopProfiling(CurAlloc, steps + 1))

NextAlloc ==
    \/ Kmalloc
    \/ Krealloc
    \/ Kcalloc
    \/ Kvalloc
    \/ Kfree
    \/ StartProfiling
    \/ StopProfiling

SpecAlloc == InitAlloc /\ [][NextAlloc]_vars

(* ------------------- region calls on several processors ---------------- *)
SmpSizes == {PAGE_SIZE, 2 * PAGE_SIZE}

RegionCursor(s, r) == IF r = "dma" THEN s.mem_dmaRegion ELSE s.mem_driverRegion

RegionEnd(r) == IF r = "dma" THEN MEM_DMA_REGION + MEM_DMA_REGION_SIZE
                ELSE MEM_DRIVER_REGION + MEM_DRIVER_REGION_SIZE

RegionFlags(r) == IF r = "dma" THEN MEM_KERNEL + MEM_NOT_CACHEABLE ELSE MEM_KERNEL

RegionLock(r) == IF r = "dma" THEN dma_lock ELSE driver_lock

SetCursor(s, r, v) == IF r = "dma" THEN [s EXCEPT !.mem_dmaRegion = v]
                      ELSE [s EXCEPT !.mem_driverRegion = v]

\* spinlock_acquire / spinlock_release of the region's lock: v is the holder
LockBecomes(r, v) ==
    IF r = "dma" THEN dma_lock' = v /\ UNCHANGED driver_lock
    ELSE driver_lock' = v /\ UNCHANGED dma_lock

\* one step of processor c inside a region call: the kernel is left in state
\* s, the processor at p
SmpStep(c, s, p, op, ret, cur0) ==
    /\ mem' = s.mem
    /\ pmm' = s.pmm
    /\ panic' = s.panic
    /\ mem_kernelHeap' = s.mem_kernelHeap
    /\ mem_driverRegion' = s.mem_driverRegion
    /\ mem_dmaRegion' = s.mem_dmaRegion
    /\ heap_lock' = s.heap_lock
    /\ steps' = steps + 1
    /\ cpu' = [cpu EXCEPT ![c] = p]
    /\ last' = Call(op, p.size, p.mapped, p.seen, ret, NULL, s.warn, ZeroPage, cur0)
    /\ UNCHANGED <<held, lifo, owed>>
    /\ UNCHANGED allocVars

SmpRunning == panic = "none" /\ steps < MaxSmpSteps

\* the call budget bounds the calls that start; a call under way runs on
\* until it returns or the kernel stops
SmpContinuing == panic = "none"

\* mem_allocateDMA / mem_mapDriver up to spinlock_acquire: the size is aligned
\* and the limit tested against the cursor as it is read now
RegionAllocCheck(c) ==
    /\ SmpRunning
    /\ cpu[c].pc = "idle"
    /\ \E r \in Regions, size0 \in SmpSizes :
         IF (RegionCursor(Cur, r) + AlignSize(size0)) % VA_MOD > RegionEnd(r)
         THEN SmpStep(c, [Cur EXCEPT !.panic = "MEMORY_MANAGEMENT_ERROR"], cpu[c],
                      "region_alloc.check", 0, RegionCursor(Cur, r))
         ELSE SmpStep(c, Cur, [pc |-> "alloc_acquire", region |-> r,
                               size |-> AlignSize(size0), base |-> 0,
                               seen |-> RegionCursor(Cur, r), mapped |-> 0,
                               walk |-> NoWalk],
                      "region_alloc.check", 0, RegionCursor(Cur, r))
    /\ UNCHANGED <<driver_lock, dma_lock, outstanding>>

\* spinlock_acquire(&dma_lock) / spinlock_acquire(&driver_lock)
RegionAcquire(c) ==
    /\ SmpContinuing
    /\ cpu[c].pc \in {"alloc_acquire", "free_acquire"}
    /\ RegionLock(cpu[c].region) = 0
    /\ LockBecomes(cpu[c].region, c)
    /\ SmpStep(c, Cur, [cpu[c] EXCEPT !.pc = IF @ = "alloc_acquire" THEN "alloc_body"
                                              ELSE "free_body"],
               "spinlock_acquire", 0, RegionCursor(Cur, cpu[c].region))
    /\ UNCHANGED outstanding

\* the loop over [cursor, cursor + size), then cursor += size
RegionAllocBody(s, r, size) ==
    SetCursor(MapLoop(s, current_dir, RegionCursor(s, r),
                      (RegionCursor(s, r) + size) % VA_MOD, RegionFlags(r)),
              r, (RegionCursor(s, r) + size) % VA_MOD)

\* the locked part of mem_allocateDMA / mem_mapDriver, up to spinlock_release
\* a kernel stopped inside the loop never reaches spinlock_release
RegionAllocLockedDone(c, s) ==
    /\ LockBecomes(cpu[c].region, IF s.panic = "none" THEN 0 ELSE c)
    /\ SmpStep(c, s,
               [cpu[c] EXCEPT !.pc = IF s.panic = "none" THEN "alloc_return" ELSE @,
                              !.mapped = RegionCursor(Cur, cpu[c].region)],
               "region_alloc.body", 0, RegionCursor(Cur, cpu[c].region))

RegionAllocLocked(c) ==
    /\ SmpContinuing
    /\ cpu[c].pc = "alloc_body"
    /\ RegionAllocLockedDone(c, RegionAllocBody(Cur, cpu[c].region, cpu[c].size))
    /\ UNCHANGED outstanding

\* return mem_dmaRegion - size; / return mem_driverRegion - size;
RegionAllocReturn(c) ==
    /\ SmpContinuing
    /\ cpu[c].pc = "alloc_return"
    /\ SmpStep(c, Cur, [cpu[c] EXCEPT !.pc = "idle"], "region_alloc.return",
               (RegionCursor(Cur, cpu[c].region) - cpu[c].size) % VA_MOD,
               RegionCursor(Cur, cpu[c].region))
    /\ outstanding' = [outstanding EXCEPT ![cpu[c].region] =
                          Append(@, <<(RegionCursor(Cur, cpu[c].region) - cpu[c].size) % VA_MOD,
                                      cpu[c].size>>)]
    /\ UNCHANGED <<driver_lock, dma_lock>>

\* mem_freeDMA / mem_unmapDriver up to spinlock_acquire, for an allocation
\* <<base, size>> some region_alloc returned: the tests on the arguments and
\* the comparison with the cursor as it is read now
RegionFreeTest(c, r, base, size0) ==
    IF r = "dma" /\ (base = 0 \/ size0 = 0)
    THEN SmpStep(c, Cur, cpu[c], "region_free.check", 0, RegionCursor(Cur, r))
    ELSE IF base = (RegionCursor(Cur, r) - AlignSize(size0)) % VA_MOD
    THEN SmpStep(c, Cur, [pc |-> "free_acquire", region |-> r, size |-> AlignSize(size0),
                          base |-> base, seen |-> RegionCursor(Cur, r), mapped |-> 0,
                          walk |-> NoWalk],
                 "region_free.check", 0, RegionCursor(Cur, r))
    ELSE SmpStep(c, [Cur EXCEPT !.warn = TRUE], cpu[c], "region_free.check", 0,
                 RegionCursor(Cur, r))

RegionFreeCheck(c) ==
    /\ SmpRunning
    /\ cpu[c].pc = "idle"
    /\ \E r \in Regions :
         \E i \in 1..Len(outstanding[r]) :
            RegionFreeTest(c, r, outstanding[r][i][1], outstanding[r][i][2])
    /\ UNCHANGED <<driver_lock, dma_lock, outstanding>>

\* cursor -= size, then the loop over [cursor, cursor + size)
RegionFreeBody(s, r, size) ==
    UnmapLoop(SetCursor(s, r, (RegionCursor(s, r) - size) % VA_MOD), current_dir,
              (RegionCursor(s, r) - size) % VA_MOD, RegionCursor(s, r))

\* the locked part of mem_freeDMA / mem_unmapDriver, up to spinlock_release
RegionFreeLockedDone(c, s) ==
    /\ LockBecomes(cpu[c].region, IF s.panic = "none" THEN 0 ELSE c)
    /\ SmpStep(c, s, [cpu[c] EXCEPT !.pc = IF s.panic = "none" THEN "idle" ELSE @],
               "region_free.body", 0, RegionCursor(Cur, cpu[c].region))

RegionFreeLocked(c) ==
    /\ SmpContinuing
    /\ cpu[c].pc = "free_body"
    /\ RegionFreeLockedDone(c, RegionFreeBody(Cur, cpu[c].region, cpu[c].size))
    /\ outstanding' = [outstanding EXCEPT ![cpu[c].region] =
                          SelectSeq(@, LAMBDA e : e # <<cpu[c].base, cpu[c].size>>)]

NextSmp ==
    \E c \in Cpus :
        \/ RegionAllocCheck(c)
        \/ RegionAcquire(c)
        \/ RegionAllocLocked(c)
        \/ RegionAllocReturn(c)
        \/ RegionFreeCheck(c)
        \/ RegionFreeLocked(c)

SpecSmp == Init /\ [][NextSmp]_vars

(* --------------- mem_sbrk next to the region calls, per processor ------- *)
SmpSbrkArgs == {0, 1, PAGE_SIZE, 0 - PAGE_SIZE}

\* mem_sbrk up to spinlock_acquire(&heap_lock): the three tests on the cursor
\* and on b
SbrkCheck(c) ==
    /\ SmpRunning
    /\ cpu[c].pc = "idle"
    /\ \E b \in SmpSbrkArgs :
         IF mem_kernelHeap = 0 \/ b = 0 \/ b % PAGE_SIZE # 0
         THEN SmpStep(c, mem_sbrk(Cur, current_dir, b).s, cpu[c], "sbrk.check",
                      mem_sbrk(Cur, current_dir, b).ret, mem_kernelHeap)
         ELSE SmpStep(c, Cur, [pc |-> "sbrk_acquire", region |-> "heap", size |-> b,
                               base |-> 0, seen |-> mem_kernelHeap, mapped |-> 0,
                               walk |-> NoWalk],
                      "sbrk.check", 0, mem_kernelHeap)
    /\ UNCHANGED <<driver_lock, dma_lock, outstanding>>

\* spinlock_acquire(&heap_lock)
SbrkAcquire(c) ==
    /\ SmpContinuing
    /\ cpu[c].pc = "sbrk_acquire"
    /\ heap_lock = 0
    /\ SmpStep(c, spinlock_acquire_heap(Cur), [cpu[c] EXCEPT !.pc = "sbrk_body"],
               "spinlock_acquire", 0, mem_kernelHeap)
    /\ UNCHANGED <<driver_lock, dma_lock, outstanding>>

\* the locked part of mem_sbrk: one of the two loops, the cursor moved, the
\* lock released
SbrkBody(s, dir, b) ==
    IF b < 0
    THEN SbrkMoved(SbrkFreeLoop(s, dir, s.mem_kernelHeap, (s.mem_kernelHeap + b) % VA_MOD),
                   s.mem_kernelHeap, b)
    ELSE SbrkMoved(SbrkMapLoop(SbrkWarned(s, b), dir, s.mem_kernelHeap,
                               (s.mem_kernelHeap + b) % VA_MOD),
                   s.mem_kernelHeap, b)

SbrkLockedDone(c, r) ==
    SmpStep(c, r.s, [cpu[c] EXCEPT !.pc = IF r.s.panic = "none" THEN "idle" ELSE @],
            "sbrk.body", r.ret, mem_kernelHeap)

SbrkLocked(c) ==
    /\ SmpContinuing
    /\ cpu[c].pc = "sbrk_body"
    /\ SbrkLockedDone(c, SbrkBody(Cur, current_dir, cpu[c].size))
    /\ UNCHANGED <<driver_lock, dma_lock, outstanding>>

\* calls start while the budget MaxLockSteps lasts
MaxLockSteps == 5
LockBudget == steps < MaxLockSteps

NextLock ==
    \E c \in Cpus :
        \/ LockBudget /\ RegionAllocCheck(c)
        \/ RegionAcquire(c)
        \/ RegionAllocLocked(c)
        \/ RegionAllocReturn(c)
        \/ LockBudget /\ RegionFreeCheck(c)
        \/ RegionFreeLocked(c)
        \/ LockBudget /\ SbrkCheck(c)
        \/ SbrkAcquire(c)
        \/ SbrkLocked(c)

SpecLock == Init /\ [][NextLock]_vars

\* the steps of a call under way outside its locked part
WaitOrReturn(c) == RegionAcquire(c) \/ SbrkAcquire(c) \/ RegionAllocReturn(c)

\* processor c is in the locked part of a call and the kernel runs: the step
\* that ends the locked part is possible exactly in these states
InLockedPart(c) == cpu[c].pc \in {"alloc_body", "free_body", "sbrk_body"} /\ panic = "none"

\* a processor inside a call goes on executing: it takes a lock that stays
\* free, returns, and does not stay in a locked part for ever (weak fairness
\* of the locked steps, written with their enabling condition); nothing
\* obliges a processor to start a call
SpecLockFair ==
    SpecLock /\ \A c \in Cpus : (WF_vars(WaitOrReturn(c)) /\ []<>~InLockedPart(c))

(* ------------------ facade calls on several processors ----------------- *)
\* one step of processor c inside a facade call: the facade is left in state
\* a, the processor at p
FacadeStep(c, a, p, op, x, ret) ==
    /\ alloc_info' = a.alloc_info
    /\ profile_data' = a.profile_data
    /\ allocator' = [info |-> a.info, forwarded |-> a.forwarded]
    /\ panic' = a.panic
    /\ steps' = steps + 1
    /\ cpu' = [cpu EXCEPT ![c] = p]
    /\ last' = Call(op, x, 0, 0, ret, NULL, FALSE, ZeroPage, 0)
    /\ UNCHANGED <<mem, pmm, mem_kernelHeap, mem_driverRegion, mem_dmaRegion,
                   heap_lock, held, outstanding, lifo, owed, requested,
                   driver_lock, dma_lock>>

\* processor c inside a facade call, past the test of profile_data
InFacade(c, pc, x) == [cpu[c] EXCEPT !.pc = pc, !.size = x]

\* alloc_startProfiling up to the assignment of profile_data: the two tests,
\* profile_data being read as it is now
StartProfilingTest(c) ==
    /\ SmpRunning
    /\ cpu[c].pc = "idle"
    /\ \E force \in ForceArgs :
         IF allocator.info.support_profile = 0 \/ profile_data # NoProfile
         THEN FacadeStep(c, CurAlloc, cpu[c], "alloc_startProfiling", force,
                         alloc_startProfiling(CurAlloc, force, steps + 1).ret)
         ELSE FacadeStep(c, CurAlloc, InFacade(c, "start_assign", force),
                         "alloc_startProfiling.test", force, 0)
    /\ UNCHANGED stopped

\* profile_data = kmalloc(...); memset; time_start; least_bytes_allocated;
\* return 0, whatever profile_data holds by now
StartProfilingAssign(c) ==
    /\ SmpContinuing
    /\ cpu[c].pc = "start_assign"
    /\ FacadeStep(c, ProfileStarted(kmalloc(CurAlloc, 1), steps + 1), IdleCpu,
                  "alloc_startProfiling", cpu[c].size, 0)
    /\ UNCHANGED stopped

\* kmalloc up to the first profile_data->: if (profile_data != NULL)
KmallocTest(c) ==
    /\ SmpRunning
    /\ cpu[c].pc = "idle"
    /\ \E size \in AllocSizes :
         IF profile_data = NoProfile
         THEN FacadeStep(c, Forward(CurAlloc), cpu[c], "kmalloc", size, 0)
         ELSE FacadeStep(c, CurAlloc, InFacade(c, "kmalloc_update", size),
                         "kmalloc.test", size, 0)
    /\ UNCHANGED stopped

\* the record a stopped profile_data-> update lands in when the pointer was
\* kept in a register: the one alloc_stopProfiling handed to its caller
UpdatedRecord(rec, size) ==
    IF rec = NoProfile THEN rec
    ELSE ProfileRequest([profile_data |-> rec], size).profile_data

\* the four profile_data-> accesses of kmalloc and the forwarded call. The
\* accesses race with the stores of alloc_startProfiling and
\* alloc_stopProfiling: they go through the pointer as it is now, which may
\* be NULL (the store then lands outside the facade's data), or through the
\* pointer the test read
KmallocUpdate(c) ==
    /\ SmpContinuing
    /\ cpu[c].pc = "kmalloc_update"
    /\ \/ /\ FacadeStep(c, kmalloc(CurAlloc, cpu[c].size), IdleCpu, "kmalloc",
                        cpu[c].size, 0)
          /\ UNCHANGED stopped
       \/ /\ profile_data = NoProfile
          /\ FacadeStep(c, Forward(CurAlloc), IdleCpu, "kmalloc", cpu[c].size, 0)
          /\ stopped' = UpdatedRecord(stopped, cpu[c].size)

\* alloc_stopProfiling
StopProfilingOn(c) ==
    /\ SmpRunning
    /\ cpu[c].pc = "idle"
    /\ FacadeStep(c, alloc_stopProfiling(CurAlloc, steps + 1).a, cpu[c],
                  "alloc_stopProfiling", 0, 0)
    /\ stopped' = alloc_stopProfiling(CurAlloc, steps + 1).ret

NextProfile ==
    \E c \in Cpus :
        \/ StartProfilingTest(c)
        \/ StartProfilingAssign(c)
        \/ KmallocTest(c)
        \/ KmallocUpdate(c)
        \/ StopProfilingOn(c)

SpecProfile == InitAlloc /\ [][NextProfile]_vars

(* ------------- the walk of mem_getPage on several processors ----------- *)
\* the index of addr in the table of the given level
LevelIndex(level, addr) ==
    IF level = 4 THEN MEM_PML4_INDEX(addr)
    ELSE IF level = 3 THEN MEM_PDPT_INDEX(addr)
    ELSE IF level = 2 THEN MEM_PAGEDIR_INDEX(addr)
    ELSE MEM_PAGETBL_INDEX(addr)

\* the walk once the entry w.entry is present: down one level, to the PTE
\* below a page directory entry
Descend(m, w) ==
    [level |-> w.level - 1,
     entry |-> ChildEntry(m, w.entry, LevelIndex(w.level - 1, w.va)),
     va |-> w.va]

\* processor c after the entry of its walk was found or made present in m:
\* a PDPT or PD entry with the size bit makes mem_getPage return NULL
Descended(c, m) ==
    IF cpu[c].walk.level \in {2, 3} /\ Entry(m, cpu[c].walk.entry).size = 1
    THEN [cpu[c] EXCEPT !.pc = "walk_leaf", !.walk = NoWalk]
    ELSE [cpu[c] EXCEPT !.pc = IF cpu[c].walk.level = 2 THEN "walk_leaf" ELSE "walk_test",
                        !.walk = Descend(m, cpu[c].walk)]

\* mem_mapDriver / mem_allocateDMA of one page up to the first test of
\* mem_getPage(NULL, cursor, MEM_CREATE): limit check, spinlock_acquire, the
\* address of the PML4 entry
WalkEnter(c) ==
    /\ SmpRunning
    /\ cpu[c].pc = "idle"
    /\ \E r \in Regions :
         /\ RegionLock(r) = 0
         /\ (RegionCursor(Cur, r) + PAGE_SIZE) % VA_MOD <= RegionEnd(r)
         /\ LockBecomes(r, c)
         /\ SmpStep(c, Cur,
                    [pc |-> "walk_test", region |-> r, size |-> PAGE_SIZE, base |-> 0,
                     seen |-> RegionCursor(Cur, r), mapped |-> RegionCursor(Cur, r),
                     walk |-> [level |-> 4,
                               entry |-> [tbl |-> current_dir,
                                          idx |-> MEM_PML4_INDEX(RegionCursor(Cur, r))],
                               va |-> RegionCursor(Cur, r)]],
                    "walk.enter", 0, RegionCursor(Cur, r))
    /\ UNCHANGED outstanding

\* if (!entry->bits.present) at the PML4, PDPT or PD level
WalkTest(c) ==
    /\ SmpRunning
    /\ cpu[c].pc = "walk_test"
    /\ IF Entry(mem, cpu[c].walk.entry).present = 0
       THEN SmpStep(c, Cur, [cpu[c] EXCEPT !.pc = "walk_create"], "walk.test", 0,
                    RegionCursor(Cur, cpu[c].region))
       ELSE SmpStep(c, Cur, Descended(c, mem), "walk.test", 0,
                    RegionCursor(Cur, cpu[c].region))
    /\ UNCHANGED <<driver_lock, dma_lock, outstanding>>

\* the entry made present and pointed at the new frame, in the tables zeroed
LinkedIn(zeroed, entry, block) ==
    SetEntry(zeroed, entry,
             MEM_SET_FRAME([Entry(zeroed, entry) EXCEPT !.present = 1, !.rw = 1,
                                                        !.usermode = 1],
                           block))

\* the body of the !present branch past the flags test: a frame from
\* pmm_allocateBlock is zeroed through the window and linked
LinkNewTable(s, entry, a) ==
    IF a.block = OOM THEN [s EXCEPT !.panic = "OUT_OF_MEMORY"]
    ELSE [s EXCEPT !.pmm = a.used,
                   !.mem = LinkedIn(ZeroFrame(s.mem, mem_remapPhys(a.block, PMM_BLOCK_SIZE)),
                                    entry, a.block)]

\* processor c after its !present branch left the kernel in state s
WalkCreated(c, s) ==
    SmpStep(c, s, IF s.panic = "none" THEN Descended(c, s.mem) ELSE cpu[c],
            "walk.create", 0, RegionCursor(Cur, cpu[c].region))

WalkCreate(c) ==
    /\ SmpRunning
    /\ cpu[c].pc = "walk_create"
    /\ WalkCreated(c, LinkNewTable(Cur, cpu[c].walk.entry, pmm_allocateBlock(pmm)))
    /\ UNCHANGED <<driver_lock, dma_lock, outstanding>>

\* if (pg) mem_allocatePage(pg, flags)
WalkMapped(s, pg, flags) == IF pg = NULL THEN s ELSE mem_allocatePage(s, pg, flags)

\* mem_allocatePage on the PTE found, cursor += size, spinlock_release, return
WalkLeafDone(c, s) ==
    SmpStep(c, SetCursor(s, cpu[c].region,
                         (RegionCursor(s, cpu[c].region) + cpu[c].size) % VA_MOD),
            IF s.panic = "none" THEN IdleCpu ELSE cpu[c],
            "walk.leaf", cpu[c].mapped, RegionCursor(Cur, cpu[c].region))

WalkLeaf(c) ==
    /\ SmpRunning
    /\ cpu[c].pc = "walk_leaf"
    /\ WalkLeafDone(c, WalkMapped(Cur, cpu[c].walk.entry, RegionFlags(cpu[c].region)))
    /\ LockBecomes(cpu[c].region, IF panic' = "none" THEN 0 ELSE c)
    /\ outstanding' = [outstanding EXCEPT ![cpu[c].region] =
                          Append(@, <<cpu[c].mapped, cpu[c].size>>)]

NextWalk ==
    \E c \in Cpus :
        \/ WalkEnter(c)
        \/ WalkTest(c)
        \/ WalkCreate(c)
        \/ WalkLeaf(c)

SpecWalk == Init /\ [][NextWalk]_vars

TypeOK ==
    /\ panic \in {"none", "OUT_OF_MEMORY", "MEMORY_MANAGEMENT_ERROR",
                  "KERNEL_BAD_ARGUMENT_ERROR", "UNSUPPORTED_FUNCTION_ERROR"}
    /\ pmm \subseteq Frames
    /\ steps \in 0..(MaxOps + MaxSmpSteps + 3 * MaxCpus)
    /\ heap_lock \in {0, 1}
    /\ driver_lock \in {0} \cup Cpus
    /\ dma_lock \in {0} \cup Cpus
    /\ \A c \in Cpus : cpu[c].pc \in {"idle", "alloc_acquire", "alloc_body", "alloc_return",
                                       "free_acquire", "free_body",
                                       "walk_test", "walk_create", "walk_leaf",
                                       "sbrk_acquire", "sbrk_body", "start_assign",
                                       "kmalloc_update"}

(* ----------------------------- properties ------------------------------ *)
\* the leaf PTE of the page at the page-aligned address va in tables m, or an
\* all-zero entry when the walk does not reach one
Leaf(m, va) ==
    LET r == mem_getPage([Cur EXCEPT !.mem = m], current_dir, va, MEM_DEFAULT)
    IN  IF r.pg = NULL THEN ZeroPage ELSE Entry(m, r.pg)

\* size rounded up to a multiple of the page size
AlignUp(n) == ((n + PAGE_SIZE - 1) \div PAGE_SIZE) * PAGE_SIZE

HasFlag(flags, f) == BitAnd(flags, f) # 0

\* C1: for a non-canonical virtual address and any flags, page_lookup returns
\* absent, map_address does nothing and virt_to_phys returns 0, and no table
\* entry is written and no frame is taken from the frame allocator.
C1_NonCanonicalRejected ==
    [][(/\ last'.op \in {"getPage", "mapAddress", "getPhysicalAddress"}
        /\ ~MEM_IS_CANONICAL(last'.x))
       => (/\ mem' = mem
           /\ pmm' = pmm
           /\ panic' = panic
           /\ last'.pg = NULL
           /\ last'.ret = 0)]_vars

C1_Witness ==
    /\ last.op = "getPage"
    /\ last.x = VA_NONCANON_LOW
    /\ last.flags = MEM_CREATE
    /\ last.pg = NULL

\* C2: after map_address maps a canonical va (aligned or not) to phys and the
\* lookup with CREATE was not absent, virt_to_phys(va + k) = phys + k for
\* every 0 <= k < 4096 (checked at k = 0, 1 and 4095).
C2_MapTranslateRoundTrip ==
    (/\ last.op = "mapAddress"
     /\ panic = "none"
     /\ MEM_IS_CANONICAL(last.x)
     /\ mem_getPage(Cur, current_dir, last.x, MEM_CREATE).pg # NULL)
    => \A k \in {0, 1, PAGE_SIZE - 1} :
         mem_getPhysicalAddress(Cur, current_dir, last.x + k) = last.y + k

\* C3: virt_to_phys returns exactly 0 for a canonical va whose interior tables
\* are missing or whose leaf PTE has present = 0, whatever the low 12 bits.
C3_AbsentTranslatesToZero ==
    (/\ last.op = "getPhysicalAddress"
     /\ MEM_IS_CANONICAL(last.x)
     /\ Leaf(mem, last.x - (last.x % PAGE_SIZE)).present = 0)
    => last.ret = 0

\* C4: a lookup whose flags lack the CREATE bit and that meets a non-present
\* PML4, PDPT or PD entry returns absent, takes no frame and writes no entry.
C4_NoCreateWithoutFlag ==
    [][(/\ last'.op = "getPage"
        /\ ~HasFlag(last'.flags, MEM_CREATE)
        /\ MEM_IS_CANONICAL(last'.x)
        /\ mem_getPage(Cur, current_dir, last'.x, MEM_DEFAULT).pg = NULL)
       => (/\ last'.pg = NULL
           /\ mem' = mem
           /\ pmm' = pmm)]_vars

\* C5: page_allocate without FREE sets present, writable, user, writethrough
\* and uncacheable of the leaf PTE from the flags alone, and takes exactly one
\* frame from the frame allocator iff the PTE had no frame and NOALLOC is not
\* set; otherwise the frame field and the allocator are unchanged.
C5_AllocateSetsBitsFromFlags ==
    [][(/\ last'.op = "allocatePage"
        /\ held # NULL
        /\ ~HasFlag(last'.flags, MEM_FREE_PAGE)
        /\ panic' = "none")
       => LET e == Entry(mem, held)
              e2 == Entry(mem', held)
              f == last'.flags
          IN  /\ e2.present = (IF HasFlag(f, MEM_NOT_PRESENT) THEN 0 ELSE 1)
              /\ e2.rw = (IF HasFlag(f, MEM_READONLY) THEN 0 ELSE 1)
              /\ e2.usermode = (IF HasFlag(f, MEM_KERNEL) THEN 0 ELSE 1)
              /\ e2.writethrough = (IF HasFlag(f, MEM_WRITETHROUGH) THEN 1 ELSE 0)
              /\ e2.cache_disable = (IF HasFlag(f, MEM_NOT_CACHEABLE) THEN 1 ELSE 0)
              /\ IF e.address = 0 /\ ~HasFlag(f, MEM_NOALLOC)
                 THEN \E fr \in Frames \ pmm : pmm' = pmm \cup {fr} /\ e2.address = fr
                 ELSE pmm' = pmm /\ e2.address = e.address]_vars

C5_Witness ==
    /\ last.op = "allocatePage"
    /\ last.pg # NULL
    /\ last.flags = MEM_WRITETHROUGH + MEM_NOT_CACHEABLE
    /\ last.pre.address = 0
    /\ Entry(mem, last.pg).address \in pmm \ BootUsedFrames
    /\ Entry(mem, last.pg).cache_disable = 1

\* C6: page_free clears present, writable and user, returns the PTE's frame
\* to the frame allocator and zeroes the frame field; page_allocate with FREE
\* has exactly that effect, whatever the other flags.
C6_FreeReleasesFrame ==
    [][(/\ held # NULL
        /\ \/ last'.op = "freePage"
           \/ last'.op = "allocatePage" /\ HasFlag(last'.flags, MEM_FREE_PAGE))
       => LET e == Entry(mem, held)
              e2 == Entry(mem', held)
          IN  /\ e2 = [e EXCEPT !.present = 0, !.rw = 0, !.usermode = 0, !.address = 0]
              /\ pmm' = pmm \ {e.address}
              /\ \A f \in DOMAIN mem : f # WindowFrame(held.tbl) => mem'[f] = mem[f]
              /\ panic' = panic]_vars

C6_Witness ==
    /\ last.op = "allocatePage"
    /\ HasFlag(last.flags, MEM_FREE_PAGE)
    /\ last.pg # NULL
    /\ last.pre.present = 1
    /\ last.pre.address \in Frames \ BootUsedFrames
    /\ last.pre.address \notin pmm
    /\ Entry(mem, last.pg).address = 0

\* the pages of [p, p + n) that exist in the address space
PagesOf(p, n) ==
    {va \in {p + k * PAGE_SIZE : k \in 0..((n \div PAGE_SIZE) - 1)} : va < VA_MOD}

\* what region_alloc leaves behind when the request fits below the limit
RegionAllocPost(op, cur, curAfter, limit, uncached) ==
    (/\ last'.op = op
     /\ panic' = "none"
     /\ cur + AlignUp(last'.x) <= limit)
    => /\ last'.ret = cur
       /\ curAfter = cur + AlignUp(last'.x)
       /\ \A va \in PagesOf(cur, AlignUp(last'.x)) :
            LET e == Leaf(mem', va)
            IN  /\ e.present = 1
                /\ e.rw = 1
                /\ e.usermode = 0
                /\ e.cache_disable = uncached
                /\ e.address # 0 \/ (0 \notin pmm /\ 0 \in pmm')

\* C7: when cursor + aligned size <= limit, mem_mapDriver and mem_allocateDMA
\* return the old cursor, advance the cursor by the size rounded up to a page
\* and leave every page of the interval present, writable, supervisor-only
\* and frame-backed; DMA pages uncacheable, driver pages cacheable.
C7_RegionAllocMapsInterval ==
    [][/\ RegionAllocPost("allocateDMA", mem_dmaRegion, mem_dmaRegion',
                          MEM_DMA_REGION + MEM_DMA_REGION_SIZE, 1)
       /\ RegionAllocPost("mapDriver", mem_driverRegion, mem_driverRegion',
                          MEM_DRIVER_REGION + MEM_DRIVER_REGION_SIZE, 0)]_vars

C7_Witness ==
    /\ last.op = "allocateDMA"
    /\ last.x = 2 * PAGE_SIZE
    /\ panic = "none"
    /\ last.ret = MEM_DMA_REGION + PAGE_SIZE
    /\ mem_dmaRegion = MEM_DMA_REGION + 3 * PAGE_SIZE
    /\ Leaf(mem, MEM_DMA_REGION + 2 * PAGE_SIZE).cache_disable = 1

\* C8: a growth request that would move a region cursor past the region limit
\* stops the kernel with MEMORY_MANAGEMENT_ERROR, with no page mapped and the
\* cursor unchanged, for mem_mapDriver, mem_allocateDMA and a positive
\* mem_sbrk alike.
C8_GrowthPastLimitIsFatal ==
    [][/\ (last'.op = "sbrk" /\ last'.x > 0 /\ last'.x % PAGE_SIZE = 0
           /\ mem_kernelHeap + last'.x > MEM_PHYSMEM_MAP_REGION)
          => (panic' = "MEMORY_MANAGEMENT_ERROR" /\ mem' = mem /\ pmm' = pmm
              /\ mem_kernelHeap' = mem_kernelHeap)
       /\ (last'.op = "allocateDMA"
           /\ mem_dmaRegion + AlignUp(last'.x) > MEM_DMA_REGION + MEM_DMA_REGION_SIZE)
          => (panic' = "MEMORY_MANAGEMENT_ERROR" /\ mem' = mem /\ pmm' = pmm
              /\ mem_dmaRegion' = mem_dmaRegion)
       /\ (last'.op = "mapDriver"
           /\ mem_driverRegion + AlignUp(last'.x) > MEM_DRIVER_REGION + MEM_DRIVER_REGION_SIZE)
          => (panic' = "MEMORY_MANAGEMENT_ERROR" /\ mem' = mem /\ pmm' = pmm
              /\ mem_driverRegion' = mem_driverRegion)]_vars

\* what a region_free that takes back the allocation made just before leaves
MatchedFreePost(allocOp, freeOp, curAfter, limit) ==
    (/\ last.op = allocOp
     /\ panic = "none"
     /\ last.cur0 + AlignUp(last.x) <= limit
     /\ last'.op = freeOp
     /\ last'.y = last.ret
     /\ last'.x = last.x)
    => /\ curAfter = last.cur0
       /\ \A va \in PagesOf(last.ret, AlignUp(last.x)) :
            Leaf(mem', va).present = 0 /\ Leaf(mem', va).address = 0

\* C9: a region_alloc(n) that fits below the limit and returns p, followed by
\* region_free(p, n), restores the
\* cursor and leaves every page of [p, p + aligned n) not present with a zero
\* frame field; when every outstanding allocation has been freed in reverse
\* order of allocation the cursor is back at the region base.
C9_LifoRoundTrip ==
    [][/\ MatchedFreePost("allocateDMA", "freeDMA", mem_dmaRegion',
                          MEM_DMA_REGION + MEM_DMA_REGION_SIZE)
       /\ MatchedFreePost("mapDriver", "unmapDriver", mem_driverRegion',
                          MEM_DRIVER_REGION + MEM_DRIVER_REGION_SIZE)
       /\ (lifo'["dma"].ok /\ outstanding'["dma"] = <<>>)
          => mem_dmaRegion' = MEM_DMA_REGION
       /\ (lifo'["driver"].ok /\ outstanding'["driver"] = <<>>)
          => mem_driverRegion' = MEM_DRIVER_REGION]_vars

C9_Witness ==
    /\ last.op = "freeDMA"
    /\ last.y = MEM_DMA_REGION
    /\ last.x = 2 * PAGE_SIZE
    /\ lifo["dma"] = [ok |-> TRUE, pops |-> 2, peak |-> 2]
    /\ outstanding["dma"] = <<>>
    /\ mem_dmaRegion = MEM_DMA_REGION
    /\ Leaf(mem, MEM_DMA_REGION + PAGE_SIZE).present = 0

\* what a region_free whose base is not cursor - aligned size leaves
MismatchedFreePost(freeOp, cur, silent) ==
    (/\ last'.op = freeOp
     /\ last'.y # (cur - AlignUp(last'.x)) % VA_MOD)
    => /\ mem' = mem
       /\ pmm' = pmm
       /\ panic' = panic
       /\ mem_dmaRegion' = mem_dmaRegion
       /\ mem_driverRegion' = mem_driverRegion
       /\ mem_kernelHeap' = mem_kernelHeap
       /\ silent \/ last'.warn

\* C10, a warning on every mismatched free: a region_free with base #
\* cursor - aligned size changes
\* nothing (cursor, every PTE and the frame allocator are as before, the
\* pages stay mapped) and a warning is logged.
C10_MismatchedFreeWarns ==
    [][/\ MismatchedFreePost("freeDMA", mem_dmaRegion, FALSE)
       /\ MismatchedFreePost("unmapDriver", mem_driverRegion, FALSE)]_vars

\* C10, mem_freeDMA's early return apart: a region_free with base #
\* cursor - aligned size changes
\* nothing; a warning is logged, except that mem_freeDMA returns without one
\* when base is 0 or size is 0.
C10_MismatchedFreeChangesNothing ==
    [][/\ MismatchedFreePost("freeDMA", mem_dmaRegion, last'.y = 0 \/ last'.x = 0)
       /\ MismatchedFreePost("unmapDriver", mem_driverRegion, FALSE)]_vars

C10_Witness ==
    /\ last.op = "freeDMA"
    /\ last.warn
    /\ last.y = MEM_DMA_REGION
    /\ last.x = 2 * PAGE_SIZE
    /\ Len(outstanding["dma"]) = 2
    /\ mem_dmaRegion = MEM_DMA_REGION + 3 * PAGE_SIZE
    /\ Leaf(mem, MEM_DMA_REGION).present = 1

\* a region_free that was accepted: it moved the region's cursor
Accepted(freeOp, cur, curAfter) ==
    /\ last'.op = freeOp
    /\ curAfter # cur

\* the allocation on top of the region's list is exactly the freed interval
FreesLastAllocation(r) ==
    /\ Len(outstanding[r]) > 0
    /\ outstanding[r][Len(outstanding[r])][1] = last'.y
    /\ AlignUp(outstanding[r][Len(outstanding[r])][2]) = AlignUp(last'.x)

\* C11, only the most recent allocation: a region_free on the driver or DMA
\* region is accepted only when (base, size) is exactly the most recent
\* outstanding allocation of that region.
C11_FreeOnlyLastAllocation ==
    [][/\ Accepted("freeDMA", mem_dmaRegion, mem_dmaRegion')
            => FreesLastAllocation("dma")
       /\ Accepted("unmapDriver", mem_driverRegion, mem_driverRegion')
            => FreesLastAllocation("driver")]_vars

\* the five cursor-moving operations together
NextCursor == NextRegion \/ NextHeap

SpecCursor == Init /\ [][NextCursor]_vars

\* C12, cursor bounds: base <= cursor <= limit for the driver, DMA and heap
\* regions in every state reached by mem_mapDriver, mem_unmapDriver,
\* mem_allocateDMA, mem_freeDMA and mem_sbrk calls that did not stop the
\* kernel; the heap's base is the heap region start plus the bitmap bytes.
C12_CursorWithinBounds ==
    panic = "none" =>
        /\ MEM_DRIVER_REGION <= mem_driverRegion
        /\ mem_driverRegion <= MEM_DRIVER_REGION + MEM_DRIVER_REGION_SIZE
        /\ MEM_DMA_REGION <= mem_dmaRegion
        /\ mem_dmaRegion <= MEM_DMA_REGION + MEM_DMA_REGION_SIZE
        /\ MEM_HEAP_REGION + BitmapPages * PAGE_SIZE <= mem_kernelHeap
        /\ mem_kernelHeap <= MEM_PHYSMEM_MAP_REGION

\* every page of [base, cursor) has a present leaf and no page of
\* [cursor, limit) has one
RegionMapped(base, cursor, limit) ==
    /\ \A va \in PagesOf(base, cursor - base) : Leaf(mem, va).present = 1
    /\ \A va \in PagesOf(cursor, limit - cursor) : Leaf(mem, va).present = 0

\* C13, mapped below the cursor: for the driver, DMA and heap regions every
\* page of [base, cursor) has a present leaf entry and every page of
\* [cursor, limit) has none.
C13_MappedExactlyBelowCursor ==
    panic = "none" =>
        /\ RegionMapped(MEM_DRIVER_REGION, mem_driverRegion,
                        MEM_DRIVER_REGION + MEM_DRIVER_REGION_SIZE)
        /\ RegionMapped(MEM_DMA_REGION, mem_dmaRegion,
                        MEM_DMA_REGION + MEM_DMA_REGION_SIZE)
        /\ RegionMapped(MEM_HEAP_REGION + BitmapPages * PAGE_SIZE, mem_kernelHeap,
                        MEM_PHYSMEM_MAP_REGION)

\* the heap cursor is inside its region and stays there after moving by b
HeapMoveInBounds(b) ==
    /\ MEM_HEAP_REGION + BitmapPages * PAGE_SIZE <= mem_kernelHeap
    /\ mem_kernelHeap + b <= MEM_PHYSMEM_MAP_REGION

\* C14, heap round trip: with the heap cursor inside its region, sbrk(0)
\* returns the cursor and changes nothing; for page multiples n > 0 and
\* 0 < m <= n, sbrk(n) from cursor H returns H, moves the cursor to H + n and
\* leaves every page of [H, H + n) present; the sbrk(-m) that follows returns
\* H + n, moves the cursor to exactly H + n - m and leaves every page of
\* [H + n - m, H + n) not present.
C14_SbrkRoundTrip ==
    [][(last'.op = "sbrk" /\ panic' = "none" /\ HeapMoveInBounds(last'.x)) =>
        /\ last'.x = 0 =>
             /\ last'.ret = mem_kernelHeap
             /\ mem_kernelHeap' = mem_kernelHeap
             /\ mem' = mem
             /\ pmm' = pmm
        /\ last'.x > 0 =>
             /\ last'.ret = mem_kernelHeap
             /\ mem_kernelHeap' = mem_kernelHeap + last'.x
             /\ \A va \in PagesOf(mem_kernelHeap, last'.x) : Leaf(mem', va).present = 1
        /\ (last'.x < 0 /\ last.op = "sbrk" /\ last.x >= 0 - last'.x) =>
             /\ last'.ret = mem_kernelHeap
             /\ mem_kernelHeap' = mem_kernelHeap + last'.x
             /\ \A va \in PagesOf(mem_kernelHeap + last'.x, 0 - last'.x) :
                  Leaf(mem', va).present = 0]_vars

\* the heap grew by two pages and then shrank by one
C14_Witness ==
    /\ last.op = "sbrk"
    /\ last.x = 0 - PAGE_SIZE
    /\ last.ret = MEM_HEAP_REGION + (BitmapPages + 2) * PAGE_SIZE
    /\ mem_kernelHeap = MEM_HEAP_REGION + (BitmapPages + 1) * PAGE_SIZE
    /\ Leaf(mem, MEM_HEAP_REGION + BitmapPages * PAGE_SIZE).present = 1
    /\ Leaf(mem, MEM_HEAP_REGION + (BitmapPages + 1) * PAGE_SIZE).present = 0
    /\ panic = "none"

\* C15, misaligned heap request: mem_sbrk(b) with b not a multiple of 4096,
\* positive or negative, stops with KERNEL_BAD_ARGUMENT_ERROR before the heap
\* lock is taken, and the heap cursor, every PTE and the frame allocator are
\* unchanged.
C15_MisalignedSbrkIsFatal ==
    [][(last'.op = "sbrk" /\ last'.x % PAGE_SIZE # 0) =>
        /\ panic' = "KERNEL_BAD_ARGUMENT_ERROR"
        /\ heap_lock' = 0
        /\ mem_kernelHeap' = mem_kernelHeap
        /\ mem' = mem
        /\ pmm' = pmm]_vars

\* the heap had grown by a page when mem_sbrk(-1) stopped the kernel
C15_Witness ==
    /\ last.op = "sbrk"
    /\ last.x = 0 - 1
    /\ panic = "KERNEL_BAD_ARGUMENT_ERROR"
    /\ mem_kernelHeap = MEM_HEAP_REGION + (BitmapPages + 1) * PAGE_SIZE
    /\ Leaf(mem, MEM_HEAP_REGION + BitmapPages * PAGE_SIZE).present = 1

\* mem_sbrk called with b >= 0 only
NextSbrkGrow == SbrkGrow

SpecSbrkGrow == Init /\ [][NextSbrkGrow]_vars

Booted == last.op = "mem_init" /\ panic = "none"

\* page-aligned addresses of the pages that hold a byte of [lo, hi)
PagesTouching(lo, hi) ==
    {k * PAGE_SIZE : k \in (lo \div PAGE_SIZE)..((hi - 1) \div PAGE_SIZE)}

\* C17, kernel text is read-only: after mem_init every leaf PTE that covers a
\* byte of [__text_start, __text_end) has its writable bit clear, including
\* the page that holds an unaligned __text_start and the last page of an
\* unaligned __text_end.
C17_TextIsReadOnly ==
    Booted => \A va \in PagesTouching(last.y, last.flags) : Leaf(mem, va).rw = 0

\* the tables of the window as mem_init leaves them
HighPML == mem[KERNEL_PML_FRAME][TableEntries - 1]
HighPDPT == mem[HighPML.address]
HighPD(i) == mem[HighPDPT[i].address]

\* the window entry (i, j) is a present, writable, supervisor-only large page
\* that maps the physical address i * 1 GiB + j * 2 MiB
WindowEntryOK(i, j) ==
    /\ HighPD(i)[j].present = 1
    /\ HighPD(i)[j].rw = 1
    /\ HighPD(i)[j].usermode = 0
    /\ HighPD(i)[j].size = 1
    /\ MEM_GET_FRAME(HighPD(i)[j]) = i * PD_SPAN + j * PAGE_SIZE_LARGE

\* exactly the first WindowPDs (64 of 512) PDPT entries are present, each
\* writable and supervisor-only, each with a full directory of large pages
WindowDirectoriesOK ==
    /\ {i \in 0..(TableEntries - 1) : HighPDPT[i].present = 1} = 0..(WindowPDs - 1)
    /\ \A i \in 0..(WindowPDs - 1) :
         /\ HighPDPT[i].rw = 1
         /\ HighPDPT[i].usermode = 0
         /\ HighPDPT[i].size = 0
         /\ \A j \in 0..(TableEntries - 1) : WindowEntryOK(i, j)

\* every large page of physical [0, size) is mapped by exactly one entry
WindowCovers(size) ==
    \A p \in {k * PAGE_SIZE_LARGE : k \in 0..((size \div PAGE_SIZE_LARGE) - 1)} :
        Cardinality({ij \in (0..(WindowPDs - 1)) \X (0..(TableEntries - 1)) :
                        /\ HighPD(ij[1])[ij[2]].present = 1
                        /\ MEM_GET_FRAME(HighPD(ij[1])[ij[2]]) = p}) = 1

IdentityTables ==
    MapLowBase(MapHighBase(ZeroedTables), KernelPts(MEM_ALIGN_PAGE(last.x) \div PAGE_SIZE))

\* addresses of [0, kernel_end rounded up to a page): every page start and
\* the middle of every page
KernelBytes == {k * (PAGE_SIZE \div 2) : k \in 0..((AlignUp(last.x) \div (PAGE_SIZE \div 2)) - 1)}

PageOf(v) == (v \div PAGE_SIZE) * PAGE_SIZE

C20_FatalIffMoreThanThreeTables ==
    last.op = "mem_init" =>
        /\ panic = "MEMORY_MANAGEMENT_ERROR"
             <=> AlignUp(last.x) \div PAGE_SIZE > LOW_BASE_PTS * TableEntries
        /\ panic # "none" => mem[KERNEL_PML_FRAME][0].present = 0

\* mem_heapBasePT[i] as mem_init leaves it
HeapPTE(i) == mem[HEAP_PT_FRAME + (i \div TableEntries)][i % TableEntries]

\* C21, heap window after bootstrap: for every i below the number of bitmap
\* pages, heap page-table entry i is present and writable and addresses
\* physical kernel_end_aligned + i * 4096, kernel_end rounded up to a page, so
\* that no bitmap page is backed by a frame of the kernel image.
C21_BitmapFramesFollowKernel ==
    Booted =>
        \A i \in 0..(BitmapPages - 1) :
            /\ HeapPTE(i).present = 1
            /\ HeapPTE(i).rw = 1
            /\ MEM_GET_FRAME(HeapPTE(i)) = AlignUp(last.x) + i * PAGE_SIZE

\* a call of alloc_startProfiling made while a profiling record is active
SecondStart ==
    /\ profile_data # NoProfile
    /\ last'.op = "alloc_startProfiling"
    /\ steps' = steps + 1

\* C22, profiling idempotence as stated: while profiling is active every
\* further alloc_startProfiling returns -EINPROGRESS, whatever its force
\* argument, and leaves the active record and its counters unchanged.
C22_SecondStartInProgress ==
    [][SecondStart => /\ last'.ret = 0 - EINPROGRESS
                      /\ profile_data' = profile_data]_vars

\* C22 as the code has it: while profiling is active a further
\* alloc_startProfiling returns -EINPROGRESS when force is 0 and -ENOTSUP when
\* force is set; in both cases the active record and its counters are unchanged.
C22_SecondStartRefused ==
    [][SecondStart => /\ last'.ret = (IF last'.x = 0 THEN 0 - EINPROGRESS
                                                    ELSE 0 - ENOTSUP)
                      /\ profile_data' = profile_data]_vars

\* a forced start was refused while a record with counted requests was active
C22_Witness ==
    /\ last.op = "alloc_startProfiling"
    /\ last.x = 1
    /\ last.ret = 0 - ENOTSUP
    /\ profile_data # NoProfile
    /\ profile_data.requests > 0

\* a call of the facade's entry point op
FacadeCall(op) == last'.op = op /\ steps' = steps + 1

\* C23, capability refusal: over an allocator without valloc support kvalloc
\* stops the kernel with UNSUPPORTED_FUNCTION_ERROR, forwards nothing to the
\* backing allocator and leaves the profiling record alone; over an allocator
\* without profiling support alloc_startProfiling returns -ENOTSUP, profiling
\* stays inactive and alloc_stopProfiling returns null.
C23_UnsupportedIsRefused ==
    [][/\ (FacadeCall("kvalloc") /\ allocator.info.support_valloc = 0) =>
            /\ panic' = "UNSUPPORTED_FUNCTION_ERROR"
            /\ allocator' = allocator
            /\ profile_data' = profile_data
       /\ (FacadeCall("alloc_startProfiling") /\ allocator.info.support_profile = 0) =>
            /\ last'.ret = 0 - ENOTSUP
            /\ profile_data' = NoProfile
            /\ panic' = "none"
       /\ (FacadeCall("alloc_stopProfiling") /\ allocator.info.support_profile = 0) =>
            /\ stopped' = NoProfile
            /\ profile_data' = NoProfile]_vars

\* kvalloc was refused while a profiling record with counted requests was active
C23_Witness ==
    /\ last.op = "kvalloc"
    /\ allocator.info.support_valloc = 0
    /\ panic = "UNSUPPORTED_FUNCTION_ERROR"
    /\ profile_data # NoProfile
    /\ profile_data.requests > 0

\* the intervals <<base, size>> at positions i and j of a region's outstanding
\* allocations share no address
DisjointAt(q, i, j) == q[i][1] + q[i][2] <= q[j][1] \/ q[j][1] + q[j][2] <= q[i][1]

\* C24, region calls of several processors are linearizable: every region_alloc
\* returns the base of the interval that same call mapped, the outstanding
\* intervals of a region are pairwise disjoint, and the limit check and the
\* LIFO comparison were decided on the cursor value the call finds once it
\* holds the region's lock.
C24_RegionCallsLinearizable ==
    /\ last.op = "region_alloc.return" => last.ret = last.y
    /\ \A r \in Regions :
         \A i, j \in 1..Len(outstanding[r]) :
            i # j => DisjointAt(outstanding[r], i, j)
    /\ last.op \in {"region_alloc.body", "region_free.body"} => last.flags = last.cur0

\* the handlers whose body runs between spinlock_acquire and spinlock_release
LockedOps == {"allocateDMA", "freeDMA", "mapDriver", "unmapDriver", "sbrk",
              "region_alloc.body", "region_free.body"}

\* the step called the page-frame allocator: a frame was taken or given back,
\* or none was left to take
CalledPFA == pmm' # pmm \/ (panic = "none" /\ panic' = "OUT_OF_MEMORY")

\* C25, page tables change under a lock: a step that creates an interior
\* table or calls the page-frame allocator is made while a region lock is
\* held, whichever entry point it goes through (mem_mapAddress, mem_getPage
\* with MEM_CREATE, mem_allocatePage, mem_freePage included).
C25_TablesChangeUnderLock ==
    [][CalledPFA => \/ last'.op \in LockedOps
                    \/ heap_lock # 0
                    \/ driver_lock # 0
                    \/ dma_lock # 0]_vars

\* C26, PML4 immutability: once bootstrap is over, no call of the page API or
\* of the region allocators (mem_mapAddress, mem_getPage with any flags,
\* mem_allocatePage, mem_freePage, mem_sbrk, driver and DMA map and unmap)
\* changes an entry of the kernel PML4.
C26_PML4IsReadOnly ==
    [][mem'[KERNEL_PML_FRAME] = mem[KERNEL_PML_FRAME]]_vars

\* the entry at slot sl = <<frame, index>> of tables m
SlotEntry(m, sl) == IF sl[1] \in DOMAIN m THEN m[sl[1]][sl[2]] ELSE ZeroPage

\* the slots of the table in frame f
SlotsOf(f) == {<<f, i>> : i \in 0..(TableEntries - 1)}

\* frames the present entries among slots link as next-level tables (a
\* large-page entry links none)
LinkedBy(m, slots) ==
    {SlotEntry(m, sl).address :
        sl \in {x \in slots : SlotEntry(m, x).present = 1 /\ SlotEntry(m, x).size = 0}}

\* the slots of the PML4, of the PDPTs it links and of the page directories
\* they link
PML4Slots == SlotsOf(KERNEL_PML_FRAME)
PDPTSlots(m) == UNION {SlotsOf(f) : f \in LinkedBy(m, PML4Slots)}
PDSlots(m) == UNION {SlotsOf(f) : f \in LinkedBy(m, PDPTSlots(m))}
InteriorSlots(m) == PML4Slots \cup PDPTSlots(m) \cup PDSlots(m)

\* the interior entries that are present, and the table frames they link
PresentInterior(m) ==
    {sl \in InteriorSlots(m) : SlotEntry(m, sl).present = 1 /\ SlotEntry(m, sl).size = 0}
LinkedTables(m) == LinkedBy(m, InteriorSlots(m))

\* the number of present interior entries of m that link frame f
Parents(m, f) == Cardinality({sl \in PresentInterior(m) : SlotEntry(m, sl).address = f})

\* C27, interior tables are grow-only: a present PML4, PDPT or PD entry never
\* becomes absent or changes its frame; every page-table frame taken from the
\* page-frame allocator is linked by exactly one parent entry; and no linked
\* page-table frame is given back to the page-frame allocator or handed out by
\* it again.
C27_InteriorTablesGrowOnly ==
    [][/\ \A sl \in PresentInterior(mem) :
            /\ SlotEntry(mem', sl).present = 1
            /\ SlotEntry(mem', sl).address = SlotEntry(mem, sl).address
       /\ \A f \in LinkedTables(mem') \ StaticFrames : Parents(mem', f) = 1
       /\ (pmm \ pmm') \cap LinkedTables(mem) = {}
       /\ (pmm' \ pmm) \cap LinkedTables(mem) = {}]_vars

\* C28, frame round trip: when the leaf pages allocated and the leaf pages
\* freed match as a bag (here through mem_sbrk: every page a growth added was
\* taken back exactly once by a shrink, and no shrink asked for anything
\* else), the frames marked in use are those in use at the start plus the
\* frames of the interior tables created meanwhile.
C28_FrameRoundTrip ==
    (last.op = "sbrk" /\ panic = "none" /\ owed.matched /\ owed.pages = {})
        => pmm = BootUsedFrames \cup LinkedTables(mem)

\* the pages of [lo, hi) whose leaf entry is present in m2 and was not in m1
NewlyPresent(m1, m2, lo, hi) ==
    {va \in PagesIn(lo, hi) : Leaf(m1, va).present = 0 /\ Leaf(m2, va).present = 1}

\* the frames the leaf entries of the pages vas name in tables m
LeafFrames(m, vas) == {Leaf(m, va).address : va \in vas}

C30_ShrinkFreesExactlyTheInterval ==
    [][(last'.op = "sbrk" /\ last'.x < 0 /\ panic' = "none") =>
         /\ pmm \ pmm' \subseteq
               LeafFrames(mem, PagesIn(mem_kernelHeap + last'.x, mem_kernelHeap))
         /\ Leaf(mem', mem_kernelHeap) = Leaf(mem, mem_kernelHeap)]_vars

\* va is an address of the physical-memory window
InWindow(va) ==
    MEM_PHYSMEM_MAP_REGION <= va /\ va < MEM_PHYSMEM_MAP_REGION + MEM_PHYSMEM_MAP_SIZE

\* the entries that map the window: the first WindowPDs entries of its PDPT
\* and every entry of its page directories
WindowEntries(m) ==
    <<[i \in 0..(WindowPDs - 1) |-> m[HIGH_PDPT_FRAME][i]],
      [k \in 0..(WindowPDs - 1) |-> m[HIGH_PDS_FRAME + k]]>>

\* C31, the large-page guard protects the window: mem_getPage on a canonical
\* address of the window returns NULL, whatever the flags, without taking a
\* frame or writing an entry; and no call changes a PDPT or PD entry that
\* maps the window.
C31_WindowIsNotShattered ==
    [][/\ (last'.op = "getPage" /\ steps' = steps + 1 /\ InWindow(last'.x)) =>
             /\ last'.pg = NULL
             /\ pmm' = pmm
             /\ mem' = mem
       /\ WindowEntries(mem') = WindowEntries(mem)]_vars

\* the sizes of the allocating calls among the requests q
RECURSIVE AllocatedSizes(_)
AllocatedSizes(q) ==
    IF q = <<>> THEN <<>>
    ELSE IF q[1] = FREED THEN AllocatedSizes(Tail(q))
    ELSE <<q[1]>> \o AllocatedSizes(Tail(q))

RECURSIVE SumOf(_)
SumOf(q) == IF q = <<>> THEN 0 ELSE q[1] + SumOf(Tail(q))

\* the record the counters are read from: the active one, or the one
\* alloc_stopProfiling has just returned
ProfileRecord ==
    IF profile_data # NoProfile THEN profile_data
    ELSE IF last.op = "alloc_stopProfiling" THEN stopped
    ELSE NoProfile

\* C32, profiling counters: from a successful alloc_startProfiling to the
\* next alloc_stopProfiling the record's request count is the number of
\* kmalloc, krealloc, kcalloc, kvalloc and kfree calls made, its byte total is
\* the sum of the sizes requested (elements * size for kcalloc, nothing for
\* kfree), and its largest and smallest fields are the maximum and the minimum
\* size of the allocating calls.
C32_CountersMatchCalls ==
    ProfileRecord # NoProfile =>
        /\ ProfileRecord.requests = Len(requested)
        /\ ProfileRecord.bytes_allocated = SumOf(AllocatedSizes(requested))
        /\ AllocatedSizes(requested) # <<>> =>
              /\ \E i \in DOMAIN AllocatedSizes(requested) :
                    ProfileRecord.most_bytes_allocated = AllocatedSizes(requested)[i]
              /\ \A i \in DOMAIN AllocatedSizes(requested) :
                    ProfileRecord.most_bytes_allocated >= AllocatedSizes(requested)[i]
              /\ \E i \in DOMAIN AllocatedSizes(requested) :
                    ProfileRecord.least_bytes_allocated = AllocatedSizes(requested)[i]
              /\ \A i \in DOMAIN AllocatedSizes(requested) :
                    ProfileRecord.least_bytes_allocated <= AllocatedSizes(requested)[i]

\* the active record has counted a kcalloc of two elements, a smaller request
\* and a kfree
C32_Witness ==
    /\ profile_data # NoProfile
    /\ profile_data.requests = 3
    /\ FREED \in {requested[i] : i \in DOMAIN requested}
    /\ profile_data.bytes_allocated = 2 * PAGE_SIZE + 8
    /\ profile_data.most_bytes_allocated = 2 * PAGE_SIZE
    /\ profile_data.least_bytes_allocated = 8

\* C33, DMA allocations are physically contiguous: after mem_allocateDMA(size)
\* has returned base, each page of [base, base + size) after the first is
\* backed by the frame that follows the frame of the page before it.
C33_DmaIsContiguous ==
    (last.op = "allocateDMA" /\ panic = "none") =>
        \A va \in PagesIn(last.ret, last.ret + AlignSize(last.x) - PAGE_SIZE) :
            Leaf(mem, va + PAGE_SIZE).address = Leaf(mem, va).address + 1

\* the frames named by the present leaf entries of the page tables of m
LeafSlots(m) == UNION {SlotsOf(f) : f \in LinkedBy(m, PDSlots(m))}
MappedFrames(m) ==
    {SlotEntry(m, sl).address : sl \in {x \in LeafSlots(m) : SlotEntry(m, x).present = 1}}

\* C34, cross-region races: while processors run region operations on
\* different regions, no two of them are creating the same missing interior
\* table at once, every interior table taken from the page-frame allocator is
\* linked under one parent, and no frame taken from the allocator is lost:
\* each is a linked table or backs a mapped page.
C34_TablesCreatedOnce ==
    /\ \A c, d \in Cpus :
          (c # d /\ cpu[c].pc = "walk_create" /\ cpu[d].pc = "walk_create")
              => cpu[c].walk.entry # cpu[d].walk.entry
    /\ \A f \in LinkedTables(mem) \ StaticFrames : Parents(mem, f) = 1
    /\ pmm \ BootUsedFrames \subseteq LinkedTables(mem) \cup MappedFrames(mem)

\* C35, only owned frames are freed: a step of mem_freePage,
\* mem_allocatePage(MEM_FREE_PAGE), mem_freeDMA, mem_unmapDriver or a negative
\* mem_sbrk hands back to the page-frame allocator only frames the allocator
\* gave out after bootstrap and that a present leaf entry still names; an
\* entry whose frame field is 0 causes no free, so frame 0 stays allocated.
C35_OnlyOwnedFramesFreed ==
    [][/\ (pmm \ pmm') \cap BootUsedFrames = {}
       /\ (pmm \ pmm') \subseteq MappedFrames(mem)]_vars

\* C36, no frame leak: in every state reached by calls of the page API,
\* every frame taken from the page-frame allocator after bootstrap is linked
\* as a page table or is still named by a present leaf entry; in particular
\* mem_mapAddress on a page that has a frame from the allocator does not
\* replace the frame field while the old frame stays allocated.
C36_NoFrameLeak ==
    pmm \ BootUsedFrames \subseteq LinkedTables(mem) \cup MappedFrames(mem)

\* C37, mem_sbrk before bootstrap is rejected: a mem_sbrk call made before
\* mem_init set the heap cursor, mem_sbrk(0) included, stops the kernel with
\* KERNEL_BAD_ARGUMENT_ERROR and returns no cursor.
C37_EarlySbrkStops ==
    last.op = "sbrk" => panic = "KERNEL_BAD_ARGUMENT_ERROR"

\* C38, window addresses stay inside the window: whenever
\* mem_remapPhys(phys, len) returns, [result, result + len) lies inside the
\* window mem_init maps, and result - window base = phys, so that distinct
\* physical addresses get distinct window addresses.
C38_RemapStaysInWindow ==
    (last.op = "remapPhys" /\ panic = "none") =>
        /\ MEM_PHYSMEM_MAP_REGION <= last.ret
        /\ last.ret + last.y <= MEM_PHYSMEM_MAP_REGION + MEM_PHYSMEM_MAP_SIZE
        /\ last.ret - MEM_PHYSMEM_MAP_REGION = last.x

\* the region locks processor c holds
LocksHeld(c) ==
    {r \in Regions : RegionLock(r) = c}
        \cup (IF cpu[c].pc = "sbrk_body" THEN {"heap"} ELSE {})

\* the fatal stops mem.c issues itself
CoreStops == {"MEMORY_MANAGEMENT_ERROR", "KERNEL_BAD_ARGUMENT_ERROR"}

\* at most one lock per processor; none before spinlock_acquire and none
\* after the call returned; heap_lock taken exactly while a processor is in
\* the locked part of mem_sbrk; a stop of mem.c comes from the tests before
\* spinlock_acquire
LockDiscipline ==
    /\ \A c \in Cpus : Cardinality(LocksHeld(c)) <= 1
    /\ \A c \in Cpus :
          cpu[c].pc \in {"idle", "alloc_acquire", "free_acquire", "sbrk_acquire",
                         "alloc_return"}
              => LocksHeld(c) = {}
    /\ heap_lock = 1 <=> \E c \in Cpus : cpu[c].pc = "sbrk_body"
    /\ panic \in CoreStops => last.op \in {"region_alloc.check", "sbrk.check"}

\* C39, lock discipline and progress: every mem_sbrk, mem_mapDriver,
\* mem_unmapDriver, mem_allocateDMA and mem_freeDMA call holds at most one
\* region lock, holds none when it returns or when mem.c stops the kernel,
\* and, the processors being scheduled fairly, every call that started
\* returns unless the kernel is stopped.
C39_LocksReleasedAndProgress ==
    /\ []LockDiscipline
    /\ \A c \in Cpus : (cpu[c].pc # "idle") ~> (cpu[c].pc = "idle" \/ panic # "none")

\* one processor is in the locked part of mem_sbrk while the other waits for
\* heap_lock
C39_Witness ==
    \E c, d \in Cpus : cpu[c].pc = "sbrk_body" /\ cpu[d].pc = "sbrk_acquire"

\* C40, profiling under concurrency: while processors call
\* alloc_startProfiling, alloc_stopProfiling and kmalloc at the same time, a
\* start that returns 0 stores its record while no record is current (one
\* start per session, no record overwritten and lost), and kmalloc updates
\* the counters only while the record its test saw is still current (never
\* through a pointer alloc_stopProfiling has cleared).
C40_ProfilingIsRaceFree ==
    [][\A c \in Cpus :
          /\ (cpu[c].pc = "start_assign" /\ cpu'[c].pc = "idle")
                => profile_data = NoProfile
          /\ (cpu[c].pc = "kmalloc_update" /\ cpu'[c].pc = "idle")
                => profile_data # NoProfile]_vars

====
